---- MODULE Spec2Model ----
(***************************************************************************)
(* Gomoku engine (kigster/gomoku-cpp23): game state, win detection,        *)
(* evaluation, transposition table, sequential and root-parallel search.   *)
(*                                                                         *)
(* Representation choices                                                  *)
(*  - cells hold the C integers of the legacy layer: Cross = 1,            *)
(*    Naught = -1, Empty = 0; board[x][y] as in the code.                  *)
(*  - a 64-bit Zobrist value is represented by the set of (player, pos)    *)
(*    keys whose XOR it is (the keys are treated as linearly independent); *)
(*    XOR is symmetric difference and the value 0 is the empty set.        *)
(*  - wall-clock time is observed only through is_search_timed_out; the    *)
(*    clock of a search counts those observations and the deadline is the  *)
(*    observation at which the limit is first found exceeded; a behaviour  *)
(*    fixes it as a number of observations after a point of the iterative  *)
(*    deepening (ArmDeadline).                                             *)
(*  - the keys of the program are values of rand(); the slot of a table    *)
(*    entry is computed from a fixed scrambling of the keys (TTIndex).     *)
(*  - a loop of the search is one operator for its body (...Step) and one  *)
(*    that runs the body over the indices in order (...Range); operators   *)
(*    named ...After... are the rest of a function from a point on.        *)
(***************************************************************************)
EXTENDS Integers, Sequences, FiniteSets, TLC

\* ------------------------------------------------------------------------
\* Program constants
\* ------------------------------------------------------------------------
BoardSize == 15
NEED_TO_WIN == 5
WIN_SCORE == 1000000
LOSE_SCORE == -1000000
MAX_MOVE_HISTORY == 400
MAX_INTERESTING == 361
MAX_RADIUS == 2
TRANSPOSITION_TABLE_SIZE == 100000
MAX_KILLER_MOVES == 2
MAX_SEARCH_DEPTH == 10

Cross == 1
Naught == -1
Empty == 0

Running == 0
HumanWin == 1
AIWin == 2
Draw == 3

TT_EXACT == 0
TT_LOWER_BOUND == 1
TT_UPPER_BOUND == 2

DIRECTIONS == << <<1, 0>>, <<0, 1>>, <<1, 1>>, <<1, -1>> >>

\* ------------------------------------------------------------------------
\* Bounds of the model
\* ------------------------------------------------------------------------
\* number of stones the state machines place (stones_on_board never shrinks)
MaxMoves == 3
\* moves are entered on row Row, columns -1 (off board) .. MaxCol
MaxCol == 2
\* longest line of stones built in the line specification (0 .. MaxRun)
MaxRun == 5

Row == 7

\* ------------------------------------------------------------------------
\* Small helpers
\* ------------------------------------------------------------------------
Max(a, b) == IF a >= b THEN a ELSE b
Min(a, b) == IF a <= b THEN a ELSE b
Abs(a) == IF a < 0 THEN -a ELSE a
Coords == 0 .. (BoardSize - 1)

\* the values an int** board of the configured size can hold
Boards == [Coords -> [Coords -> {Cross, Naught, Empty}]]

\* gomoku::other_player through the C wrapper: anything but Cross maps to Cross
other_player(player) == IF player = Cross THEN Naught ELSE Cross

\* Position::is_valid
is_valid_position(x, y, size) == x >= 0 /\ y >= 0 /\ x < size /\ y < size

\* ------------------------------------------------------------------------
\* Board: line counting and win detection (board.hpp)
\* ------------------------------------------------------------------------
\* one of the two counting loops of Board::count_line: steps i = 1 .. 4 in
\* direction sign*dir, stopping at the first cell that is off board or not player
RECURSIVE CountDir(_, _, _, _, _, _, _, _)
CountDir(board, size, x, y, dx, dy, player, i) ==
    IF i >= NEED_TO_WIN THEN 0
    ELSE IF ~is_valid_position(x + dx * i, y + dy * i, size) THEN 0
    ELSE IF board[x + dx * i][y + dy * i] # player THEN 0
    ELSE 1 + CountDir(board, size, x, y, dx, dy, player, i + 1)

count_line(board, size, x, y, dir, player) ==
    CountDir(board, size, x, y, -dir[1], -dir[2], player, 1)
    + (IF board[x][y] = player THEN 1 ELSE 0)
    + CountDir(board, size, x, y, dir[1], dir[2], player, 1)

check_win_from_position(board, size, x, y, player) ==
    \E d \in 1 .. 4 : count_line(board, size, x, y, DIRECTIONS[d], player) >= NEED_TO_WIN

Board_has_winner(board, size, player) ==
    \E x \in 0 .. (size - 1), y \in 0 .. (size - 1) :
        board[x][y] = player /\ check_win_from_position(board, size, x, y, player)

\* the C wrapper: only the two instantiated board sizes are handled
has_winner[board \in Boards, size \in Int, player \in Int] ==
    IF size = 15 \/ size = 19
    THEN (IF Board_has_winner(board, size, player) THEN 1 ELSE 0)
    ELSE 0

\* is_valid_move without the test that the cell is empty
is_valid_move_any_cell(board, x, y, size) ==
    x >= 0 /\ x < size /\ y >= 0 /\ y < size

is_valid_move(board, x, y, size) ==
    x >= 0 /\ x < size /\ y >= 0 /\ y < size /\ board[x][y] = Empty

create_board(size) == [x \in 0 .. (size - 1) |-> [y \in 0 .. (size - 1) |-> Empty]]

\* ------------------------------------------------------------------------
\* Zobrist hashing and transposition table (game.cpp)
\* ------------------------------------------------------------------------
Xor(a, b) == (a \ b) \cup (b \ a)

\* zobrist_keys[player_index][pos] as filled by init_transposition_table
zobrist_keys(player_index, pos) == {<<player_index, pos>>}

RECURSIVE XorAll(_)
XorAll(S) == IF S = {} THEN {}
             ELSE LET k == CHOOSE k \in S : TRUE IN Xor(k, XorAll(S \ {k}))

compute_zobrist_hash[board \in Boards, size \in Int] ==
    XorAll({ zobrist_keys(IF board[i][j] = Cross THEN 0 ELSE 1, i * size + j) :
             <<i, j>> \in { c \in (0 .. (size - 1)) \X (0 .. (size - 1)) : board[c[1]][c[2]] # Empty } })

ZeroEntry == [hash |-> {}, value |-> 0, depth |-> 0, flag |-> 0, best_move_x |-> 0, best_move_y |-> 0]

\* ------------------------------------------------------------------------
\* Game state (game.h game_state_t, game.cpp init_game)
\* ------------------------------------------------------------------------
CenterMoves(size) ==
    LET center == size \div 2
        cells == { c \in ((center - 2) .. (center + 2)) \X ((center - 2) .. (center + 2)) :
                     c[1] >= 0 /\ c[1] < size /\ c[2] >= 0 /\ c[2] < size }
        n == Cardinality(cells)
        \* row-major order of the two nested loops
        rank(c) == Cardinality({ d \in cells : d[1] < c[1] \/ (d[1] = c[1] /\ d[2] < c[2]) })
    IN [k \in 1 .. n |-> LET c == CHOOSE c \in cells : rank(c) = k - 1
                         IN [x |-> c[1], y |-> c[2], is_active |-> 1]]

init_killer_moves == [d \in 0 .. (MAX_SEARCH_DEPTH - 1) |-> [k \in 0 .. (MAX_KILLER_MOVES - 1) |-> <<-1, -1>>]]

init_game(config) ==
    [ config |-> config,
      board |-> create_board(config.board_size),
      board_size |-> config.board_size,
      current_player |-> Cross,
      game_state |-> Running,
      max_depth |-> config.max_depth,
      move_timeout |-> config.move_timeout,
      move_history |-> << >>,
      search_timed_out |-> 0,
      interesting_moves |-> CenterMoves(config.board_size),
      stones_on_board |-> 0,
      has_winner_cache |-> <<0, 0>>,
      winner_cache_valid |-> 0,
      transposition_table |-> << >>,
      current_hash |-> compute_zobrist_hash[create_board(config.board_size), config.board_size],
      killer_moves |-> init_killer_moves,
      search_clock |-> 0,
      search_deadline |-> 0,
      timeout_seen |-> 0,
      placed_late |-> 0,
      inexact |-> << >>,
      sentinel |-> << >> ]

\* ------------------------------------------------------------------------
\* make_move and its callees (game.cpp)
\* ------------------------------------------------------------------------
add_move_to_history(game, x, y, player) ==
    IF Len(game.move_history) < MAX_MOVE_HISTORY
    THEN [game EXCEPT !.move_history = Append(@, [x |-> x, y |-> y, player |-> player])]
    ELSE game

invalidate_winner_cache(game) == [game EXCEPT !.winner_cache_valid = 0]

\* index of the first entry of the list that matches (x, y) (and is active
\* when needActive), 0 when there is none
FirstMatch(list, x, y, needActive) ==
    LET hits == { k \in 1 .. Len(list) :
                    list[k].x = x /\ list[k].y = y /\ (needActive => list[k].is_active = 1) }
    IN IF hits = {} THEN 0 ELSE CHOOSE k \in hits : \A h \in hits : k <= h

\* the two nested loops that append the empty neighbours of (x, y), row-major
RECURSIVE AddNeighbours(_, _, _, _, _, _, _)
AddNeighbours(list, board, size, x, y, i, j) ==
    IF i > Min(size - 1, x + MAX_RADIUS) THEN list
    ELSE IF j > Min(size - 1, y + MAX_RADIUS)
         THEN AddNeighbours(list, board, size, x, y, i + 1, Max(0, y - MAX_RADIUS))
    ELSE IF board[i][j] = Empty /\ FirstMatch(list, i, j, TRUE) = 0 /\ Len(list) < MAX_INTERESTING
         THEN AddNeighbours(Append(list, [x |-> i, y |-> j, is_active |-> 1]), board, size, x, y, i, j + 1)
    ELSE AddNeighbours(list, board, size, x, y, i, j + 1)

update_interesting_moves(game, x, y) ==
    LET g1 == invalidate_winner_cache([game EXCEPT !.stones_on_board = @ + 1])
        added == AddNeighbours(g1.interesting_moves, g1.board, g1.board_size, x, y,
                               Max(0, x - MAX_RADIUS), Max(0, y - MAX_RADIUS))
        k == FirstMatch(added, x, y, FALSE)
    IN [g1 EXCEPT !.interesting_moves =
            IF k = 0 THEN added ELSE [added EXCEPT ![k].is_active = 0]]

check_game_state(game) ==
    IF has_winner[game.board, game.board_size, Cross] = 1
    THEN [game EXCEPT !.game_state = HumanWin]
    ELSE IF has_winner[game.board, game.board_size, Naught] = 1
    THEN [game EXCEPT !.game_state = AIWin]
    ELSE IF \A i \in 0 .. (game.board_size - 1), j \in 0 .. (game.board_size - 1) :
               game.board[i][j] # Empty
    THEN [game EXCEPT !.game_state = Draw]
    ELSE game

\* make_move: the pair <<return value, game afterwards>>
make_move(game, x, y, player) ==
    IF ~is_valid_move(game.board, x, y, game.board_size)
    THEN <<0, game>>
    ELSE LET g1 == add_move_to_history(game, x, y, player)
             g2 == [g1 EXCEPT !.board[x][y] = player]
             g3 == update_interesting_moves(g2, x, y)
             g4 == check_game_state(g3)
             g5 == IF g4.game_state = Running
                   THEN [g4 EXCEPT !.current_player = other_player(@)]
                   ELSE g4
         IN <<1, g5>>

\* can_undo without the test of the configuration flag
can_undo_any_config(game) == Len(game.move_history) >= 2

can_undo(game) == game.config.enable_undo = 1 /\ Len(game.move_history) >= 2

\* one pass of the loop that removes a recorded move
UndoOne(game) ==
    IF Len(game.move_history) > 0
    THEN LET last_move == game.move_history[Len(game.move_history)]
         IN [game EXCEPT !.move_history = SubSeq(@, 1, Len(@) - 1),
                         !.board[last_move.x][last_move.y] = Empty]
    ELSE game

undo_last_moves(game) ==
    IF ~can_undo(game) THEN game
    ELSE [UndoOne(UndoOne(game)) EXCEPT !.current_player = Cross, !.game_state = Running]

\* ------------------------------------------------------------------------
\* Evaluator (gomoku.cpp)
\* ------------------------------------------------------------------------
Nothing == 0
Five == 1
StraightFour == 2
Four == 3
Three == 4
FourBroken == 5
ThreeBroken == 6
Two == 7
NearEnemy == 8
ThreeAndFour == 9
ThreeAndThree == 10
ThreeAndThreeBroken == 11

\* threat_cost as filled by populate_threat_matrix
threat_cost(threat) ==
    CASE threat = Five -> 1000000
      [] threat = StraightFour -> 100000
      [] threat = Four -> 10000
      [] threat = Three -> 1000
      [] threat = FourBroken -> 1000
      [] threat = ThreeBroken -> 100
      [] threat = Two -> 10
      [] threat = NearEnemy -> 1
      [] threat = ThreeAndFour -> 200000
      [] threat = ThreeAndThree -> 50000
      [] threat = ThreeAndThreeBroken -> 10000
      [] OTHER -> 0

\* Board::get_line with the centre overwritten by player, as calc_score_at
\* prepares it: index 0 .. 8, cells off the board read as Empty
player_line(board, size, x, y, dir, player) ==
    [i \in 0 .. (NEED_TO_WIN * 2 - 2) |->
        LET px == x + dir[1] * (i - (NEED_TO_WIN - 1))
            py == y + dir[2] * (i - (NEED_TO_WIN - 1))
        IN IF i = NEED_TO_WIN - 1 THEN player
           ELSE IF is_valid_position(px, py, size) THEN board[px][py] ELSE Empty]

\* number of consecutive stones of player from index i stepping by step
RECURSIVE RunFrom(_, _, _, _, _)
RunFrom(line, n, i, step, player) ==
    IF i < 0 \/ i >= n THEN 0
    ELSE IF line[i] # player THEN 0
    ELSE 1 + RunFrom(line, n, i + step, step, player)

calc_threat_in_one_dimension(line, n, player) ==
    IF n < NEED_TO_WIN * 2 - 1 THEN Nothing
    ELSE LET center == n \div 2 IN
    IF line[center] # player THEN Nothing
    ELSE LET opponent == other_player(player)
             left_count == RunFrom(line, n, center - 1, -1, player)
             right_count == RunFrom(line, n, center + 1, 1, player)
             count == 1 + left_count + right_count
             li == center - left_count - 1
             ri == center + right_count + 1
             left_blocked == li >= 0 /\ line[li] = opponent
             right_blocked == ri < n /\ line[ri] = opponent
             left_open == li >= 0 /\ line[li] = Empty
             right_open == ri < n /\ line[ri] = Empty
         IN IF count >= NEED_TO_WIN THEN Five
            ELSE IF count = 4
                 THEN (IF ~left_blocked /\ ~right_blocked THEN StraightFour ELSE Four)
            ELSE IF count = 3
                 THEN (IF ~left_blocked /\ ~right_blocked THEN Three ELSE ThreeBroken)
            ELSE IF count = 2 THEN Two
            ELSE IF count = 1 /\ (left_open \/ right_open) THEN NearEnemy
            ELSE Nothing

calc_combination_threat(one, two) ==
    IF one = Three /\ two = Four THEN threat_cost(ThreeAndFour)
    ELSE IF one = Three /\ two = Three THEN threat_cost(ThreeAndThree)
    ELSE 0

\* threat category of (x, y) in direction number d
ThreatAt(board, size, player, x, y, d) ==
    calc_threat_in_one_dimension(player_line(board, size, x, y, DIRECTIONS[d], player),
                                 NEED_TO_WIN * 2 - 1, player)

Board_calc_score_at(board, size, player, x, y) ==
    IF ~is_valid_position(x, y, size) THEN 0
    ELSE LET threats == [d \in 1 .. 4 |-> ThreatAt(board, size, player, x, y, d)]
         IN threat_cost(threats[1]) + threat_cost(threats[2])
            + threat_cost(threats[3]) + threat_cost(threats[4])
            + calc_combination_threat(threats[1], threats[2])
            + calc_combination_threat(threats[1], threats[3])
            + calc_combination_threat(threats[1], threats[4])
            + calc_combination_threat(threats[2], threats[3])
            + calc_combination_threat(threats[2], threats[4])
            + calc_combination_threat(threats[3], threats[4])

\* sum of a function with integer values over a finite set
RECURSIVE SumOver(_, _)
SumOver(S, f) ==
    IF S = {} THEN 0
    ELSE LET c == CHOOSE c \in S : TRUE IN f[c] + SumOver(S \ {c}, f)

\* CellTerm without the subtraction for the stones of the opponent
CellTermOwnStones(board, size, player, c) ==
    IF board[c[1]][c[2]] = player THEN Board_calc_score_at(board, size, player, c[1], c[2])
    ELSE 0

CellTerm(board, size, player, c) ==
    IF board[c[1]][c[2]] = player THEN Board_calc_score_at(board, size, player, c[1], c[2])
    ELSE 0 - Board_calc_score_at(board, size, other_player(player), c[1], c[2])

Board_evaluate_position_incremental(board, size, player, last_x, last_y) ==
    IF Board_has_winner(board, size, player) THEN WIN_SCORE
    ELSE IF Board_has_winner(board, size, other_player(player)) THEN LOSE_SCORE
    ELSE LET eval_radius == 3
             window == { c \in (Max(0, last_x - eval_radius) .. Min(size - 1, last_x + eval_radius))
                               \X (Max(0, last_y - eval_radius) .. Min(size - 1, last_y + eval_radius)) :
                           board[c[1]][c[2]] # Empty }
         IN SumOver(window, [c \in window |-> CellTerm(board, size, player, c)])

\* the C wrapper: only the two instantiated board sizes are evaluated
evaluate_position_incremental[board \in Boards, size \in Int, player \in Int, last_x \in Int, last_y \in Int] ==
    IF size = 15 \/ size = 19
    THEN Board_evaluate_position_incremental(board, size, player, last_x, last_y)
    ELSE 0

\* ------------------------------------------------------------------------
\* Move generation and ordering (ai.cpp)
\* ------------------------------------------------------------------------
\* the while loops of evaluate_threat_fast: stones of player from (x, y) on
RECURSIVE RayCount(_, _, _, _, _, _, _)
RayCount(board, size, x, y, dx, dy, player) ==
    IF ~is_valid_position(x, y, size) THEN 0
    ELSE IF board[x][y] # player THEN 0
    ELSE 1 + RayCount(board, size, x + dx, y + dy, dx, dy, player)

ThreatLevel(count) ==
    IF count >= 5 THEN 100000
    ELSE IF count = 4 THEN 10000
    ELSE IF count = 3 THEN 1000
    ELSE IF count = 2 THEN 100
    ELSE 0

evaluate_threat_fast[board \in Boards, x \in Int, y \in Int, player \in Int, size \in Int] ==
    LET t(d) == ThreatLevel(1 + RayCount(board, size, x + DIRECTIONS[d][1], y + DIRECTIONS[d][2],
                                         DIRECTIONS[d][1], DIRECTIONS[d][2], player)
                              + RayCount(board, size, x - DIRECTIONS[d][1], y - DIRECTIONS[d][2],
                                         0 - DIRECTIONS[d][1], 0 - DIRECTIONS[d][2], player))
    IN Max(Max(t(1), t(2)), Max(t(3), t(4)))

is_killer_move(game, depth, x, y) ==
    IF depth >= MAX_SEARCH_DEPTH THEN 0
    ELSE IF \E i \in 0 .. (MAX_KILLER_MOVES - 1) : game.killer_moves[depth][i] = <<x, y>>
    THEN 1 ELSE 0

get_move_priority_optimized(game, x, y, player) ==
    LET center == game.board_size \div 2
        center_dist == Abs(x - center) + Abs(y - center)
        my_threat == evaluate_threat_fast[game.board, x, y, player, game.board_size]
        opp_threat == evaluate_threat_fast[game.board, x, y, other_player(player), game.board_size]
    IN IF my_threat >= 100000 THEN 100000
       ELSE IF opp_threat >= 100000 THEN 50000
       ELSE Max(0, game.board_size - center_dist)
            + (IF is_killer_move(game, game.max_depth, x, y) = 1 THEN 10000 ELSE 0)
            + (my_threat \div 10) + (opp_threat \div 5)

\* the entries of the interesting list that are active and empty, in list
\* order, each with its priority
generate_moves_optimized(game, current_player) ==
    LET Candidate(e) == e.is_active = 1 /\ game.board[e.x][e.y] = Empty
        found == SelectSeq(game.interesting_moves, Candidate)
    IN SubSeq([n \in 1 .. Len(found) |->
                  [x |-> found[n].x, y |-> found[n].y,
                   priority |-> get_move_priority_optimized(game, found[n].x, found[n].y,
                                                            current_player)]],
              1, Len(found))

\* qsort with compare_moves: priority descending; moves of equal priority
\* keep their order (merge sort of the C library)
SortMoves(moves) ==
    LET n == Len(moves)
        rank == SubSeq([k \in 1 .. n |->
                          Cardinality({ h \in 1 .. n :
                              \/ moves[h].priority > moves[k].priority
                              \/ (moves[h].priority = moves[k].priority /\ h < k) })],
                       1, n)
    IN SubSeq([p \in 1 .. n |-> moves[CHOOSE k \in 1 .. n : rank[k] = p - 1]], 1, n)

\* ------------------------------------------------------------------------
\* Caches, transposition table, killer moves, timeout (game.cpp)
\* ------------------------------------------------------------------------
\* search_timed_out = 1; timeout_seen records that the flag was set during
\* the search
SetTimedOut(game) == [game EXCEPT !.search_timed_out = 1, !.timeout_seen = 1]

\* is_search_timed_out with == for >=: the limit is reported at one reading
\* of the clock only
is_search_timed_out_once(game) ==
    IF game.move_timeout <= 0 THEN [r |-> 0, g |-> game]
    ELSE [r |-> IF game.search_clock + 1 = game.search_deadline THEN 1 ELSE 0,
          g |-> [game EXCEPT !.search_clock = @ + 1]]

\* is_search_timed_out: every call with a limit set reads the clock once; the
\* limit is found exceeded from observation number search_deadline on
is_search_timed_out(game) ==
    IF game.move_timeout <= 0 THEN [r |-> 0, g |-> game]
    ELSE [r |-> IF game.search_clock + 1 >= game.search_deadline THEN 1 ELSE 0,
          g |-> [game EXCEPT !.search_clock = @ + 1]]

get_cached_winner(game, player) ==
    LET g == IF game.winner_cache_valid = 0
             THEN [game EXCEPT !.has_winner_cache =
                                   <<has_winner[game.board, game.board_size, Cross],
                                     has_winner[game.board, game.board_size, Naught]>>,
                               !.winner_cache_valid = 1]
             ELSE game
    IN [r |-> IF player = Cross THEN g.has_winner_cache[1] ELSE g.has_winner_cache[2], g |-> g]

\* the numeric value of a key: the keys are what rand() produced after
\* srand(12345), here a fixed scrambling of (player_index, pos)
KeyValue(key) ==
    LET k == key[2] * 2 + key[1] + 1 IN k * k * 31 + k * 7919

RECURSIVE HashValue(_)
HashValue(hash) ==
    IF hash = {} THEN 0
    ELSE LET k == CHOOSE k \in hash : TRUE IN KeyValue(k) + HashValue(hash \ {k})

\* int index = hash % TRANSPOSITION_TABLE_SIZE
TTIndex[hash \in SUBSET ((0 .. 1) \X (0 .. (MAX_INTERESTING - 1)))] == HashValue(hash) % TRANSPOSITION_TABLE_SIZE

\* the table is kept as the function from the indices written so far to
\* their entries; every other entry is as memset left it
TTEntry(game, index) ==
    IF index \in DOMAIN game.transposition_table THEN game.transposition_table[index]
    ELSE ZeroEntry

store_transposition(game, hash, value, depth, flag, best_x, best_y) ==
    LET index == TTIndex[hash]
        entry == TTEntry(game, index)
        new == [hash |-> hash, value |-> value, depth |-> depth, flag |-> flag,
                best_move_x |-> best_x, best_move_y |-> best_y]
    IN IF entry.hash = {} \/ entry.depth <= depth
       THEN [game EXCEPT !.transposition_table =
                IF index \in DOMAIN @ THEN [@ EXCEPT ![index] = new] ELSE (index :> new) @@ @]
       ELSE game

\* a probe that does not compare the depths
probe_transposition_any_depth(game, hash, depth, alpha, beta) ==
    LET entry == TTEntry(game, TTIndex[hash])
    IN IF entry.hash = hash
          /\ \/ entry.flag = TT_EXACT
             \/ (entry.flag = TT_LOWER_BOUND /\ entry.value >= beta)
             \/ (entry.flag = TT_UPPER_BOUND /\ entry.value <= alpha)
       THEN [r |-> 1, value |-> entry.value]
       ELSE [r |-> 0, value |-> 0]

probe_transposition(game, hash, depth, alpha, beta) ==
    LET entry == TTEntry(game, TTIndex[hash])
    IN IF entry.hash = hash /\ entry.depth >= depth
          /\ \/ entry.flag = TT_EXACT
             \/ (entry.flag = TT_LOWER_BOUND /\ entry.value >= beta)
             \/ (entry.flag = TT_UPPER_BOUND /\ entry.value <= alpha)
       THEN [r |-> 1, value |-> entry.value]
       ELSE [r |-> 0, value |-> 0]

\* a store that does not look whether the move is in the list
store_killer_move_unchecked(game, depth, x, y) ==
    IF depth >= MAX_SEARCH_DEPTH THEN game
    ELSE [game EXCEPT !.killer_moves[depth] =
             [k \in 0 .. (MAX_KILLER_MOVES - 1) |-> IF k = 0 THEN <<x, y>> ELSE @[k - 1]]]

store_killer_move(game, depth, x, y) ==
    IF depth >= MAX_SEARCH_DEPTH THEN game
    ELSE IF is_killer_move(game, depth, x, y) = 1 THEN game
    ELSE [game EXCEPT !.killer_moves[depth] =
             [k \in 0 .. (MAX_KILLER_MOVES - 1) |-> IF k = 0 THEN <<x, y>> ELSE @[k - 1]]]

\* ------------------------------------------------------------------------
\* minimax_with_timeout (ai.cpp); results are [g |-> game after, v |-> value]
\* ------------------------------------------------------------------------
PlayerIndex(player) == IF player = Cross THEN 0 ELSE 1

\* board[i][j] = player; current_hash ^= key; invalidate_winner_cache
PlaceForSearch(game, i, j, player) ==
    [game EXCEPT !.board[i][j] = player,
                 !.placed_late = @ + game.search_timed_out,
                 !.current_hash = Xor(@, zobrist_keys(PlayerIndex(player), i * game.board_size + j)),
                 !.winner_cache_valid = 0]

\* the unmake without the restoration of the hash
UnplaceKeepingHash(game, i, j, player) ==
    [game EXCEPT !.board[i][j] = Empty, !.winner_cache_valid = 0]

\* current_hash ^= key; invalidate_winner_cache; board[i][j] = Empty
UnplaceForSearch(game, i, j, player) ==
    [game EXCEPT !.board[i][j] = Empty,
                 !.current_hash = Xor(@, zobrist_keys(PlayerIndex(player), i * game.board_size + j)),
                 !.winner_cache_valid = 0]

TTFlag(eval, original_alpha, beta) ==
    IF eval <= original_alpha THEN TT_UPPER_BOUND
    ELSE IF eval >= beta THEN TT_LOWER_BOUND ELSE TT_EXACT

\* the store at the end of a node called with the window (original_alpha,
\* original_beta); inexact records the first node of the search that wrote
\* its entry with a bound flag although its value is strictly inside the
\* window it was called with
StoreNodeEntry(g, hash, eval, depth, flag, best, original_alpha, original_beta, maximizing_player) ==
    LET g1 == store_transposition(g, hash, eval, depth, flag, best[1], best[2])
        e == TTEntry(g1, TTIndex[hash])
    IN IF /\ g.inexact = << >>
          /\ flag # TT_EXACT /\ original_alpha < eval /\ eval < original_beta
          /\ e.hash = hash /\ e.depth = depth /\ e.flag = flag /\ e.value = eval
       THEN [g1 EXCEPT !.inexact = [depth |-> depth, alpha |-> original_alpha, beta |-> original_beta,
                                    value |-> eval, flag |-> flag, maximizing_player |-> maximizing_player]]
       ELSE g1

\* the return of a node from inside or after its loop; sentinel records the
\* first node of the search that returned the initial value of its loop
ReturnNode(r, depth, maximizing_player) ==
    IF r.g.sentinel = << >> /\ r.v = (IF maximizing_player = 1 THEN (0 - WIN_SCORE) - 1 ELSE WIN_SCORE + 1)
    THEN [r EXCEPT !.g.sentinel = [depth |-> depth, maximizing_player |-> maximizing_player,
                                   value |-> r.v, timed_out |-> r.g.search_timed_out]]
    ELSE r

\* after the maximizer's loop: store, killer move, return
MaxStored(g1, st, depth) ==
    [g |-> IF st.eval >= st.beta /\ st.best[1] # -1
           THEN store_killer_move(g1, depth, st.best[1], st.best[2]) ELSE g1,
     v |-> st.eval]

MaxFinish(st, hash, depth, original_alpha) ==
    IF st.status = "return" THEN ReturnNode([g |-> st.g, v |-> st.eval], depth, 1)
    ELSE ReturnNode(MaxStored(StoreNodeEntry(st.g, hash, st.eval, depth,
                                             TTFlag(st.eval, original_alpha, st.beta),
                                             st.best, original_alpha, st.beta, 1),
                              st, depth),
                    depth, 1)

\* after the minimizer's loop: store, killer move, return
MinStored(g1, st, depth) ==
    [g |-> IF st.eval <= st.alpha /\ st.best[1] # -1
           THEN store_killer_move(g1, depth, st.best[1], st.best[2]) ELSE g1,
     v |-> st.eval]

MinFinish(st, hash, depth, original_alpha, original_beta) ==
    IF st.status = "return" THEN ReturnNode([g |-> st.g, v |-> st.eval], depth, 0)
    ELSE ReturnNode(MinStored(StoreNodeEntry(st.g, hash, st.eval, depth,
                                             TTFlag(st.eval, original_alpha, st.beta),
                                             st.best, original_alpha, original_beta, 0),
                              st, depth),
                    depth, 0)

\* The for loops over the sorted moves are written as one operator for the
\* loop body (...Step) and one that runs the body over the indices lo .. hi
\* in order (...Range).  The loop state st holds the variables the loop
\* changes; st.status is "loop" while the loop goes on, "break" after a break
\* or the last index, "return" after the return on a timeout.
RECURSIVE minimax_with_timeout(_, _, _, _, _, _, _, _)
RECURSIVE MinimaxAfterCheck(_, _, _, _, _, _, _, _)
RECURSIVE MinimaxAfterProbe(_, _, _, _, _, _, _, _)
RECURSIVE MinimaxAfterWinners(_, _, _, _, _, _, _, _)
RECURSIVE MinimaxOverMoves(_, _, _, _, _, _, _, _)
RECURSIVE MaxStep(_, _, _, _, _)
RECURSIVE MinStep(_, _, _, _, _)
RECURSIVE MaxAfterCheck(_, _, _, _, _)
RECURSIVE MinAfterCheck(_, _, _, _, _)
RECURSIVE MaxRange(_, _, _, _, _, _)
RECURSIVE MinRange(_, _, _, _, _, _)

\* the maximizer's loop body from the return of the recursive call res on
MaxAfterCall(st, i, j, ai_player, res) ==
    LET eval == res.v
        new_alpha == Max(st.alpha, eval)
    IN [g |-> UnplaceForSearch(res.g, i, j, ai_player),
        alpha |-> new_alpha,
        beta |-> st.beta,
        eval |-> IF eval > st.eval THEN eval ELSE st.eval,
        best |-> IF eval > st.eval THEN <<i, j>> ELSE st.best,
        status |-> IF eval >= WIN_SCORE - 1000 \/ st.beta <= new_alpha
                   THEN "break" ELSE "loop"]

\* the maximizer's loop body from the timeout check t on
MaxAfterCheck(st, t, move, depth, ai_player) ==
    IF t.r = 1 THEN [st EXCEPT !.g = SetTimedOut(t.g), !.status = "return"]
    ELSE IF depth > 2 /\ move.priority < 10 THEN [st EXCEPT !.g = t.g]
    ELSE MaxAfterCall(st, move.x, move.y, ai_player,
                      minimax_with_timeout(PlaceForSearch(t.g, move.x, move.y, ai_player),
                                           depth - 1, st.alpha, st.beta, 0, ai_player,
                                           move.x, move.y))

MaxStep(st, moves, m, depth, ai_player) ==
    MaxAfterCheck(st, is_search_timed_out(st.g), moves[m], depth, ai_player)

\* the minimizer's loop body from the return of the recursive call res on
MinAfterCall(st, i, j, ai_player, res) ==
    LET eval == res.v
        new_beta == Min(st.beta, eval)
    IN [g |-> UnplaceForSearch(res.g, i, j, other_player(ai_player)),
        alpha |-> st.alpha,
        beta |-> new_beta,
        eval |-> IF eval < st.eval THEN eval ELSE st.eval,
        best |-> IF eval < st.eval THEN <<i, j>> ELSE st.best,
        status |-> IF eval <= (0 - WIN_SCORE) + 1000 \/ new_beta <= st.alpha
                   THEN "break" ELSE "loop"]

\* the minimizer's loop body from the timeout check t on
MinAfterCheck(st, t, move, depth, ai_player) ==
    IF t.r = 1 THEN [st EXCEPT !.g = SetTimedOut(t.g), !.status = "return"]
    ELSE IF depth > 2 /\ move.priority < 10 THEN [st EXCEPT !.g = t.g]
    ELSE MinAfterCall(st, move.x, move.y, ai_player,
                      minimax_with_timeout(PlaceForSearch(t.g, move.x, move.y,
                                                          other_player(ai_player)),
                                           depth - 1, st.alpha, st.beta, 1, ai_player,
                                           move.x, move.y))

MinStep(st, moves, m, depth, ai_player) ==
    MinAfterCheck(st, is_search_timed_out(st.g), moves[m], depth, ai_player)

MaxRange(st, moves, lo, hi, depth, ai_player) ==
    IF st.status # "loop" \/ lo > hi THEN st
    ELSE IF lo = hi THEN MaxStep(st, moves, lo, depth, ai_player)
    ELSE MaxRange(MaxRange(st, moves, lo, (lo + hi) \div 2, depth, ai_player),
                  moves, ((lo + hi) \div 2) + 1, hi, depth, ai_player)

MinRange(st, moves, lo, hi, depth, ai_player) ==
    IF st.status # "loop" \/ lo > hi THEN st
    ELSE IF lo = hi THEN MinStep(st, moves, lo, depth, ai_player)
    ELSE MinRange(MinRange(st, moves, lo, (lo + hi) \div 2, depth, ai_player),
                  moves, ((lo + hi) \div 2) + 1, hi, depth, ai_player)

\* from the move list on: the two loops and what follows them
MinimaxOverMoves(game, hash, moves, depth, alpha, beta, maximizing_player, ai_player) ==
    IF Len(moves) = 0 THEN [g |-> game, v |-> 0]
    ELSE IF maximizing_player = 1
    THEN MaxFinish(MaxRange([g |-> game, alpha |-> alpha, beta |-> beta,
                             eval |-> (0 - WIN_SCORE) - 1, best |-> <<-1, -1>>, status |-> "loop"],
                            moves, 1, Len(moves), depth, ai_player),
                   hash, depth, alpha)
    ELSE MinFinish(MinRange([g |-> game, alpha |-> alpha, beta |-> beta,
                             eval |-> WIN_SCORE + 1, best |-> <<-1, -1>>, status |-> "loop"],
                            moves, 1, Len(moves), depth, ai_player),
                   hash, depth, alpha, beta)

\* from the second winner check w2 on
MinimaxAfterWinners(w2, hash, value, depth, alpha, beta, maximizing_player, ai_player) ==
    IF w2.r # 0
    THEN [g |-> store_transposition(w2.g, hash, (0 - WIN_SCORE) - depth, depth, TT_EXACT, -1, -1),
          v |-> (0 - WIN_SCORE) - depth]
    ELSE IF depth = 0
    THEN [g |-> store_transposition(w2.g, hash, value, depth, TT_EXACT, -1, -1), v |-> value]
    ELSE IF w2.g.stones_on_board = 0 THEN [g |-> w2.g, v |-> 0]
    ELSE MinimaxOverMoves(w2.g, hash,
                          SortMoves(generate_moves_optimized(w2.g,
                              IF maximizing_player = 1 THEN ai_player ELSE other_player(ai_player))),
                          depth, alpha, beta, maximizing_player, ai_player)

\* from the first winner check w1 on
MinimaxAfterProbe(w1, hash, value, depth, alpha, beta, maximizing_player, ai_player) ==
    IF w1.r # 0
    THEN [g |-> store_transposition(w1.g, hash, WIN_SCORE + depth, depth, TT_EXACT, -1, -1),
          v |-> WIN_SCORE + depth]
    ELSE MinimaxAfterWinners(get_cached_winner(w1.g, other_player(ai_player)), hash, value,
                             depth, alpha, beta, maximizing_player, ai_player)

\* from the timeout check t on; value is the static evaluation of the
\* position, used where the code calls evaluate_position_incremental
MinimaxAfterCheck(t, hash, value, depth, alpha, beta, maximizing_player, ai_player) ==
    IF t.r = 1 THEN [g |-> SetTimedOut(t.g), v |-> value]
    ELSE IF probe_transposition(t.g, hash, depth, alpha, beta).r = 1
    THEN [g |-> t.g, v |-> probe_transposition(t.g, hash, depth, alpha, beta).value]
    ELSE MinimaxAfterProbe(get_cached_winner(t.g, ai_player), hash, value, depth, alpha, beta,
                           maximizing_player, ai_player)

minimax_with_timeout(game, depth, alpha, beta, maximizing_player, ai_player, last_x, last_y) ==
    MinimaxAfterCheck(is_search_timed_out(game),
                      compute_zobrist_hash[game.board, game.board_size],
                      evaluate_position_incremental[game.board, game.board_size, ai_player,
                                                    last_x, last_y],
                      depth, alpha, beta, maximizing_player, ai_player)

\* ------------------------------------------------------------------------
\* find_first_ai_move and find_best_ai_move (ai.cpp)
\* ------------------------------------------------------------------------
\* positions of a finite set of pairs in row-major order
RECURSIVE RowMajor(_)
RowMajor(S) ==
    IF S = {} THEN << >>
    ELSE LET c == CHOOSE c \in S : \A o \in S : c[1] < o[1] \/ (c[1] = o[1] /\ c[2] <= o[2])
         IN <<c>> \o RowMajor(S \ {c})

\* the cells collected by the loops over dx and dy for one distance
RingMoves(game, human, distance) ==
    RowMajor({ c \in ((human[1] - distance) .. (human[1] + distance))
                     \X ((human[2] - distance) .. (human[2] + distance)) :
                 /\ c # human
                 /\ is_valid_position(c[1], c[2], game.board_size)
                 /\ game.board[c[1]][c[2]] = Empty })

\* the array valid_moves after the loops over distance 1 and 2
valid_moves_near(game, human) == RingMoves(game, human, 1) \o RingMoves(game, human, 2)

\* rnd1, rnd2: the values rand() returns
find_first_ai_move(game, rnd1, rnd2) ==
    LET crosses == { c \in (0 .. (game.board_size - 1)) \X (0 .. (game.board_size - 1)) :
                       game.board[c[1]][c[2]] = Cross }
    IN IF crosses = {}
       THEN <<game.board_size \div 2, game.board_size \div 2>>
       ELSE LET human == RowMajor(crosses)[1]
                valid_moves == valid_moves_near(game, human)
                move_count == Len(valid_moves)
            IN IF move_count > 0
               THEN valid_moves[(rnd1 % move_count) + 1]
               ELSE << Max(0, Min(game.board_size - 1, human[1] + ((rnd1 % 3) - 1))),
                       Max(0, Min(game.board_size - 1, human[2] + ((rnd2 % 3) - 1))) >>

\* reading of the monotonic clock that never reaches the limit
NoDeadline == 1000000000

\* the time limit of the search runs out tick clock observations after the
\* point (depth, move) of the iterative deepening: move = 0 is the head of
\* the iteration at that depth, move = m the head of its m-th root move
ArmDeadline(game, when, depth, move) ==
    IF when.depth = depth /\ when.move = move
    THEN [game EXCEPT !.search_deadline = game.search_clock + when.tick]
    ELSE game

\* the body of the loop over the root moves from the return of minimax on;
\* st.status "return" is the return from the function on a winning score
RootAfterCall(st0, i, j, res) ==
    [g |-> [res.g EXCEPT !.current_hash = Xor(@, zobrist_keys(1, i * res.g.board_size + j)),
                         !.board[i][j] = Empty],
     score |-> IF res.v > st0.score THEN res.v ELSE st0.score,
     best |-> IF res.v > st0.score THEN <<i, j>> ELSE st0.best,
     status |-> IF res.v > st0.score /\ res.v >= WIN_SCORE - 1000 THEN "return"
                ELSE IF res.g.search_timed_out = 1 THEN "break" ELSE "loop"]

\* the body of the loop over the root moves from the timeout check t on
RootAfterCheck(st0, t, move, current_depth) ==
    IF t.r = 1 THEN [st0 EXCEPT !.g = SetTimedOut(t.g), !.status = "break"]
    ELSE RootAfterCall(st0, move.x, move.y,
                       minimax_with_timeout(
                           [t.g EXCEPT !.board[move.x][move.y] = Naught,
                                       !.placed_late = @ + t.g.search_timed_out,
                                       !.current_hash =
                                           Xor(@, zobrist_keys(1, move.x * t.g.board_size + move.y))],
                           current_depth - 1, (0 - WIN_SCORE) - 1, WIN_SCORE + 1, 0, Naught,
                           move.x, move.y))

RootStep(st0, moves, m, current_depth, when) ==
    RootAfterCheck(st0, is_search_timed_out(ArmDeadline(st0.g, when, current_depth, m)),
                   moves[m], current_depth)

RECURSIVE RootRange(_, _, _, _, _, _)
RootRange(st, moves, lo, hi, current_depth, when) ==
    IF st.status # "loop" \/ lo > hi THEN st
    ELSE IF lo = hi THEN RootStep(st, moves, lo, current_depth, when)
    ELSE RootRange(RootRange(st, moves, lo, (lo + hi) \div 2, current_depth, when),
                   moves, ((lo + hi) \div 2) + 1, hi, current_depth, when)

\* the iterative deepening loop; completed is the list of the results of the
\* iterations that ran to their end without a timeout
RECURSIVE DepthLoop(_, _, _, _, _, _)
RECURSIVE DepthAfterMoves(_, _, _, _, _, _)
RECURSIVE DepthAfterCheck(_, _, _, _, _, _)

\* from the end of the loop over the root moves, with loop state r, on
DepthAfterMoves(r, moves, current_depth, best, completed, when) ==
    IF r.status = "return"
    THEN [g |-> r.g, best |-> r.best, completed |-> completed, early |-> TRUE]
    ELSE IF r.g.search_timed_out = 0
    THEN DepthLoop(r.g, moves, current_depth + 1, r.best, Append(completed, r.best), when)
    ELSE DepthLoop(r.g, moves, current_depth + 1, best, completed, when)

\* from the timeout check t at the head of the iteration on
DepthAfterCheck(t, moves, current_depth, best, completed, when) ==
    IF t.r = 1 THEN [g |-> t.g, best |-> best, completed |-> completed, early |-> FALSE]
    ELSE DepthAfterMoves(RootRange([g |-> t.g, score |-> (0 - WIN_SCORE) - 1, best |-> best,
                                    status |-> "loop"],
                                   moves, 1, Len(moves), current_depth, when),
                         moves, current_depth, best, completed, when)

DepthLoop(game0, moves, current_depth, best, completed, when) ==
    IF current_depth > game0.max_depth
    THEN [g |-> game0, best |-> best, completed |-> completed, early |-> FALSE]
    ELSE DepthAfterCheck(is_search_timed_out(ArmDeadline(game0, when, current_depth, 0)),
                         moves, current_depth, best, completed, when)

stone_count(game) ==
    Cardinality({ c \in (0 .. (game.board_size - 1)) \X (0 .. (game.board_size - 1)) :
                    game.board[c[1]][c[2]] # Empty })

\* the result of the iterative deepening r as the result of the function
SearchResult(r, fallback) ==
    [g |-> r.g, best |-> r.best, path |-> "search", fallback |-> fallback,
     completed |-> r.completed, early |-> r.early]

\* from the sorted move list on
SearchSorted(game, sorted, when) ==
    SearchResult(DepthLoop(game, sorted, 1,
                           IF Len(sorted) > 0 THEN <<sorted[1].x, sorted[1].y>> ELSE <<-1, -1>>,
                           << >>, when),
                 IF Len(sorted) > 0 THEN <<sorted[1].x, sorted[1].y>> ELSE <<-1, -1>>)

\* the indices of the moves that win at once
WinsNow(game, moves) ==
    { i \in 1 .. Len(moves) :
        evaluate_threat_fast[game.board, moves[i].x, moves[i].y, Naught, game.board_size]
            >= 100000 }

\* from the generated move list on
SearchMoves(game, moves, wins, when) ==
    IF wins # {}
    THEN LET i == CHOOSE i \in wins : \A k \in wins : i <= k
         IN [g |-> game, best |-> <<moves[i].x, moves[i].y>>, path |-> "checkmate",
             fallback |-> <<-1, -1>>, completed |-> << >>, early |-> FALSE]
    ELSE SearchSorted(game, SortMoves(moves), when)

\* from the reset of the timeout flag on
SearchFrom(game, stones, when, rnd1, rnd2) ==
    IF stones = 1
    THEN [g |-> game, best |-> find_first_ai_move(game, rnd1, rnd2), path |-> "first",
          fallback |-> <<-1, -1>>, completed |-> << >>, early |-> FALSE]
    ELSE SearchMoves(game, generate_moves_optimized(game, Naught),
                     WinsNow(game, generate_moves_optimized(game, Naught)), when)

\* result: g the game after the call, best the position written to
\* (*best_x, *best_y); path, fallback, completed and early describe the run
find_best_ai_move(game0, when, rnd1, rnd2) ==
    SearchFrom([game0 EXCEPT !.search_clock = 0, !.search_deadline = NoDeadline,
                             !.search_timed_out = 0, !.timeout_seen = 0, !.placed_late = 0,
                             !.inexact = << >>, !.sentinel = << >>],
               stone_count(game0), when, rnd1, rnd2)

\* ------------------------------------------------------------------------
\* State machine of the game operations
\* ------------------------------------------------------------------------
VARIABLES game, ret, scen, par

vars == <<game, ret, scen, par>>

\* no call of the parallel driver is in progress
ParIdle == [phase |-> "idle"]

Configs == { [board_size |-> BoardSize, max_depth |-> 1, move_timeout |-> 0, enable_undo |-> u] :
             u \in {0, 1} }

NoRet == [op |-> "init", x |-> 0, y |-> 0, player |-> 0, value |-> 0, before |-> << >>]

Init ==
    /\ \E c \in Configs : game = init_game(c)
    /\ ret = NoRet
    /\ scen = [dir |-> 0, side |-> Empty]
    /\ par = ParIdle

MakeMove(x, y, player) ==
    /\ game.stones_on_board < MaxMoves
    /\ LET r == make_move(game, x, y, player)
       IN /\ game' = r[2]
          /\ ret' = [op |-> "make_move", x |-> x, y |-> y, player |-> player,
                     value |-> r[1], before |-> game]
    /\ UNCHANGED <<scen, par>>

UndoLastMoves ==
    /\ par.phase = "idle"
    /\ game' = undo_last_moves(game)
    /\ ret' = [op |-> "undo_last_moves", x |-> 0, y |-> 0, player |-> 0,
               value |-> 0, before |-> game]
    /\ UNCHANGED <<scen, par>>

Next ==
    \/ \E y \in (-1) .. MaxCol, player \in {Cross, Naught, Empty} : MakeMove(Row, y, player)
    \/ UndoLastMoves

Spec == Init /\ [][Next]_vars

\* ------------------------------------------------------------------------
\* Line specification: one side places stones, in any order, on the cells
\* 0 .. MaxRun of one line through the board
\* ------------------------------------------------------------------------
LineCell(d, k) ==
    IF d = 1 THEN <<Row + k, 0>>
    ELSE IF d = 2 THEN <<Row, k>>
    ELSE IF d = 3 THEN <<k, k>>
    ELSE <<Row + k, MaxRun - k>>

InitLine ==
    /\ game = init_game([board_size |-> BoardSize, max_depth |-> 1, move_timeout |-> 0, enable_undo |-> 1])
    /\ ret = NoRet
    /\ par = ParIdle
    /\ \E d \in 1 .. 4, side \in {Cross, Naught} : scen = [dir |-> d, side |-> side]

LineMove(k) ==
    /\ scen.dir # 0
    /\ LET c == LineCell(scen.dir, k)
           r == make_move(game, c[1], c[2], scen.side)
       IN /\ game' = r[2]
          /\ ret' = [op |-> "make_move", x |-> c[1], y |-> c[2], player |-> scen.side,
                     value |-> r[1], before |-> game]
    /\ UNCHANGED <<scen, par>>

NextLine == \E k \in 0 .. MaxRun : LineMove(k)

SpecLine == InitLine /\ [][NextLine]_vars

\* ------------------------------------------------------------------------
\* Parallel driver (ai_parallel.cpp)
\* ------------------------------------------------------------------------
\* MoveEvaluation(x, y, priority)
MoveEvaluation(move) ==
    [x |-> move.x, y |-> move.y, score |-> (0 - WIN_SCORE) - 1, priority |-> move.priority,
     completed |-> FALSE]

\* the part of evaluate_move_parallel up to the return of minimax: the
\* clone, the move on the clone, the bounds read, the score
EvaluateOnClone(src, eval, alpha, beta) ==
    LET game_clone == [src EXCEPT !.board[eval.x][eval.y] = Naught,
                                   !.current_hash = Xor(@, zobrist_keys(1, eval.x * src.board_size + eval.y))]
    IN minimax_with_timeout(game_clone, game_clone.max_depth - 1, alpha, beta, 0, Naught,
                            eval.x, eval.y).v

\* the rest of evaluate_move_parallel: publish the score, store the result
PublishScore(p, i, score, alpha) ==
    [p EXCEPT !.best_score = IF score > p.best_score THEN score ELSE @,
              !.global_alpha = IF score > p.best_score THEN Max(alpha, score) ELSE @,
              !.evals[i].score = score,
              !.evals[i].completed = TRUE,
              !.moves_evaluated = @ + 1]

\* the loop over the moves that were not handed to the pool
RECURSIVE EvaluateRemaining(_, _, _)
EvaluateRemaining(src, p, i) ==
    IF i > Len(p.evals) THEN p
    ELSE EvaluateRemaining(src,
                           PublishScore(p, i, EvaluateOnClone(src, p.evals[i], p.global_alpha,
                                                              p.global_beta), p.global_alpha),
                           i + 1)

\* the final loop over move_evals, in order, starting from no move
RECURSIVE BestCompleted(_, _, _, _)
BestCompleted(evals, i, best_score, best) ==
    IF i > Len(evals) THEN best
    ELSE IF evals[i].completed /\ evals[i].score > best_score
    THEN BestCompleted(evals, i + 1, evals[i].score, <<evals[i].x, evals[i].y>>)
    ELSE BestCompleted(evals, i + 1, best_score, best)

\* ------------------------------------------------------------------------
\* State machine of the move choosers
\* ------------------------------------------------------------------------
MaxStones == 4
MaxDepth == 3
MaxTimedMove == 2
MaxTick == 5
MaxRand == 31
MaxPool == 2
MaxSearches == 1

\* the scenario positions: in the middle of the board Cross builds a run on
\* one line and Naught on another; in the corner the stones alternate
\* along the edge
CrossCell(place, k) == IF place = "corner" THEN <<0, 2 * (k - 1)>> ELSE <<5, 4 + k>>
NaughtCell(place, k) == IF place = "corner" THEN <<0, 2 * k - 1>> ELSE <<7, 6 + k>>

\* the stones are placed in turn through make_move
RECURSIVE PlayRows(_, _, _, _, _)
PlayRows(g, place, na, nb, side) ==
    IF side = Cross /\ na > 0
    THEN PlayRows(make_move(g, CrossCell(place, na)[1], CrossCell(place, na)[2], Cross)[2],
                  place, na - 1, nb, Naught)
    ELSE IF side = Naught /\ nb > 0
    THEN PlayRows(make_move(g, NaughtCell(place, nb)[1], NaughtCell(place, nb)[2], Naught)[2],
                  place, na, nb - 1, Cross)
    ELSE g

\* shallow searches without a time limit from every position of the middle
\* family, up to the runs one stone longer than MaxStones, timed searches
\* from the corner, and the deepest search without a time limit from the
\* position where Cross has an open run of MaxStones
Scenarios ==
    { sc \in [place : {"middle", "corner"}, na : 0 .. (MaxStones + 1), nb : 0 .. (MaxStones + 1),
              first : {Cross, Naught}, max_depth : 1 .. MaxDepth, move_timeout : {0, 1}] :
        /\ IF sc.first = Cross THEN sc.na - sc.nb \in {0, 1} ELSE sc.nb - sc.na \in {0, 1}
        /\ \/ sc.place = "middle" /\ sc.max_depth = 1 /\ sc.move_timeout = 0
           \/ sc.place = "corner" /\ sc.max_depth > 1 /\ sc.move_timeout = 1
              /\ sc.na = 1 /\ sc.nb = 1 /\ sc.first = Cross
           \/ sc.place = "middle" /\ sc.max_depth = MaxDepth /\ sc.move_timeout = 0
              /\ sc.na = MaxStones /\ sc.nb = MaxStones - 1 }

InitSearch ==
    /\ \E sc \in Scenarios :
          /\ scen = [place |-> sc.place, na |-> sc.na, nb |-> sc.nb, first |-> sc.first,
                     searches |-> 0]
          /\ game = PlayRows(init_game([board_size |-> BoardSize, max_depth |-> sc.max_depth,
                                        move_timeout |-> sc.move_timeout, enable_undo |-> 1]),
                             sc.place, sc.na, sc.nb, sc.first)
    /\ ret = NoRet
    /\ par = ParIdle

Never == [depth |-> 0, move |-> 0, tick |-> 0]

\* the points at which the time limit can run out
Whens(g) ==
    IF g.move_timeout <= 0 THEN {Never}
    ELSE {Never} \cup [depth : 1 .. g.max_depth, move : 0 .. MaxTimedMove, tick : 1 .. MaxTick]

\* the values of rand() that matter
Rands(g) == IF stone_count(g) = 1 THEN 0 .. MaxRand ELSE {0}

SearchRet(driver, r, before, when) ==
    [op |-> "find_best_move", driver |-> driver, x |-> r.best[1], y |-> r.best[2],
     path |-> r.path, fallback |-> r.fallback, completed |-> r.completed, early |-> r.early,
     when |-> when, before |-> before]

\* the search with result r returns to a caller
Returns(driver, r, when) ==
    /\ game' = r.g
    /\ ret' = SearchRet(driver, r, game, when)

\* a caller runs find_best_ai_move
FindBestAIMove(when, rnd1, rnd2) ==
    /\ par.phase = "idle"
    /\ scen.searches < MaxSearches
    /\ Returns("sequential", find_best_ai_move(game, when, rnd1, rnd2), when)
    /\ scen' = [scen EXCEPT !.searches = @ + 1]
    /\ UNCHANGED par

\* the result of the parallel driver when it does not search
NoSearch(best, path) ==
    [g |-> game, best |-> best, path |-> path, fallback |-> <<-1, -1>>, completed |-> << >>,
     early |-> FALSE]

\* the driver hands the first max_parallel of the sorted moves to the pool
Launch(sorted, pool) ==
    /\ par' = [phase |-> "tasks",
               max_parallel |-> Min(Min(Len(sorted), pool), 8),
               evals |-> [i \in 1 .. Len(sorted) |-> MoveEvaluation(sorted[i])],
               global_alpha |-> (0 - WIN_SCORE) - 1,
               global_beta |-> WIN_SCORE + 1,
               best_score |-> (0 - WIN_SCORE) - 1,
               moves_evaluated |-> 0,
               running |-> << >>]
    /\ UNCHANGED <<game, ret>>

\* find_best_move_parallel from the generated move list on
ParallelOver(moves, pool, when) ==
    IF Len(moves) = 0
    THEN Returns("parallel", NoSearch(<<-1, -1>>, "none"), when) /\ UNCHANGED par
    ELSE IF Len(moves) = 1
    THEN Returns("parallel", NoSearch(<<moves[1].x, moves[1].y>>, "single"), when)
         /\ UNCHANGED par
    ELSE Launch(SortMoves(moves), pool)

\* find_best_move_parallel up to the point where the tasks are in the queue,
\* or to its return when it does not use the pool
FindBestMoveParallel(pool, when, rnd1, rnd2) ==
    /\ par.phase = "idle"
    /\ scen.searches < MaxSearches
    /\ scen' = [scen EXCEPT !.searches = @ + 1]
    /\ IF game.stones_on_board < 2 \/ game.move_timeout > 0
       THEN Returns("parallel", find_best_ai_move(game, when, rnd1, rnd2), when)
            /\ UNCHANGED par
       ELSE ParallelOver(generate_moves_optimized(game, Naught), pool, when)

\* a worker runs evaluate_move_parallel for task i up to the return of minimax
TaskEvaluate(i) ==
    /\ par.phase = "tasks"
    /\ i \in 1 .. par.max_parallel
    /\ i \notin DOMAIN par.running
    /\ ~par.evals[i].completed
    /\ par' = [par EXCEPT !.running =
                  (i :> [alpha |-> par.global_alpha,
                         score |-> EvaluateOnClone(game, par.evals[i], par.global_alpha,
                                                   par.global_beta)]) @@ @]
    /\ UNCHANGED <<game, ret, scen>>

\* the worker publishes the score of task i and completes it
TaskPublish(i) ==
    /\ par.phase = "tasks"
    /\ i \in DOMAIN par.running
    /\ ~par.evals[i].completed
    /\ par' = PublishScore(par, i, par.running[i].score, par.running[i].alpha)
    /\ UNCHANGED <<game, ret, scen>>

\* the driver's return with the evaluations evals
ParallelResult(evals, best) ==
    [op |-> "find_best_move", driver |-> "parallel", x |-> best[1], y |-> best[2],
     path |-> "pool", fallback |-> <<-1, -1>>, completed |-> << >>, early |-> FALSE,
     when |-> Never, before |-> game, evals |-> evals]

Aggregate(evals) ==
    ParallelResult(evals, BestCompleted(evals, 1, (0 - WIN_SCORE) - 1, <<-1, -1>>))

\* all futures are ready: the remaining moves, the choice, the return
ParallelReturn ==
    /\ par.phase = "tasks"
    /\ \A i \in 1 .. par.max_parallel : par.evals[i].completed
    /\ ret' = Aggregate(EvaluateRemaining(game, par, par.max_parallel + 1).evals)
    /\ par' = ParIdle
    /\ UNCHANGED <<game, scen>>

\* make_ai_move of the HTTP API on a game that is not running: the error
\* GameAlreadyFinished, before any search
RejectAIMove ==
    /\ par.phase = "idle"
    /\ scen.searches < MaxSearches
    /\ game.game_state # Running
    /\ ret' = [op |-> "find_best_move", driver |-> "api", x |-> -1, y |-> -1,
               path |-> "game_over", fallback |-> <<-1, -1>>, completed |-> << >>,
               early |-> FALSE, when |-> Never, before |-> game]
    /\ scen' = [scen EXCEPT !.searches = @ + 1]
    /\ UNCHANGED <<game, par>>

\* the caller applies the move it was given (make_ai_move of the HTTP API)
ApplyAIMove ==
    /\ par.phase = "idle"
    /\ ret.op = "find_best_move"
    /\ game.game_state = Running
    /\ ret.x # -1 /\ ret.y # -1
    /\ LET r == make_move(game, ret.x, ret.y, game.current_player)
       IN /\ game' = r[2]
          /\ ret' = [op |-> "make_move", x |-> ret.x, y |-> ret.y, player |-> game.current_player,
                     value |-> r[1], before |-> game]
    /\ UNCHANGED <<scen, par>>

NextSearch ==
    \/ \E when \in Whens(game), rnd1 \in Rands(game), rnd2 \in Rands(game) :
          FindBestAIMove(when, rnd1, rnd2)
    \/ \E pool \in 1 .. MaxPool, when \in Whens(game), rnd1 \in Rands(game), rnd2 \in Rands(game) :
          FindBestMoveParallel(pool, when, rnd1, rnd2)
    \/ \E i \in 1 .. MaxPool : TaskEvaluate(i)
    \/ \E i \in 1 .. MaxPool : TaskPublish(i)
    \/ ParallelReturn
    \/ RejectAIMove
    \/ ApplyAIMove

SpecSearch == InitSearch /\ [][NextSearch]_vars

\* ------------------------------------------------------------------------
\* Claims
\* ------------------------------------------------------------------------
Sides == {Cross, Naught}

CellIs(board, size, x, y, side) == is_valid_position(x, y, size) /\ board[x][y] = side

\* a maximal run of exactly NEED_TO_WIN stones of side starting at (x, y) in direction d
ExactRunAt(board, size, x, y, d, side) ==
    /\ \A k \in 0 .. (NEED_TO_WIN - 1) :
          CellIs(board, size, x + k * DIRECTIONS[d][1], y + k * DIRECTIONS[d][2], side)
    /\ ~CellIs(board, size, x - DIRECTIONS[d][1], y - DIRECTIONS[d][2], side)
    /\ ~CellIs(board, size, x + NEED_TO_WIN * DIRECTIONS[d][1], y + NEED_TO_WIN * DIRECTIONS[d][2], side)

HasExactFive(board, size, side) ==
    \E x \in 0 .. (size - 1), y \in 0 .. (size - 1), d \in 1 .. 4 :
        ExactRunAt(board, size, x, y, d, side)

\* C1: has_winner[side] is true exactly when some line holds a run of
\* exactly five stones of side; a board whose only long run is six or
\* more stones yields false.
C1_WinnerIffExactFive ==
    \A side \in Sides :
        (has_winner[game.board, game.board_size, side] = 1)
            <=> HasExactFive(game.board, game.board_size, side)

\* the applied moves of the run so far have all been taken back
AllReverted ==
    /\ ret.op = "undo_last_moves"
    /\ Len(ret.before.move_history) >= 2
    /\ \A k \in 1 .. Len(ret.before.move_history) : ret.before.move_history[k].player \in Sides
    /\ Len(game.move_history) = 0
    /\ \A i \in 0 .. (game.board_size - 1), j \in 0 .. (game.board_size - 1) : game.board[i][j] = Empty

ActiveSet(g) ==
    { <<g.interesting_moves[k].x, g.interesting_moves[k].y>> :
        k \in { k \in 1 .. Len(g.interesting_moves) : g.interesting_moves[k].is_active = 1 } }

\* C6: once every applied move has been reverted by undo, the board, the
\* stone count, the Zobrist hash, the winner cache and the interesting set
\* are those of the fresh state.
C6_UndoRestoresFresh ==
    AllReverted =>
        LET fresh == init_game(game.config)
        IN /\ game.board = fresh.board
           /\ game.stones_on_board = fresh.stones_on_board
           /\ game.current_hash = fresh.current_hash
           /\ game.winner_cache_valid = fresh.winner_cache_valid
           /\ game.has_winner_cache = fresh.has_winner_cache
           /\ ActiveSet(game) = ActiveSet(fresh)

\* XOR of the keys of the occupied cells, written without the scan of the code
OccupiedKeys(board, size) ==
    { <<IF board[c[1]][c[2]] = Cross THEN 0 ELSE 1, c[1] * size + c[2]>> :
        c \in { c \in (0 .. (size - 1)) \X (0 .. (size - 1)) : board[c[1]][c[2]] # Empty } }

\* C7: after any sequence of applied moves the current Zobrist hash of the
\* state is the XOR of the keys of exactly the occupied cells.
C7_HashIsXorOfOccupied ==
    game.current_hash = OccupiedKeys(game.board, game.board_size)

\* C10: make_move on a position that is off the board or occupied returns
\* failure and leaves board, history, stone count, side to move and status
\* unchanged.
C10_InvalidMoveRejected ==
    (/\ ret.op = "make_move"
     /\ \/ ~is_valid_position(ret.x, ret.y, ret.before.board_size)
        \/ ret.before.board[ret.x][ret.y] # Empty)
    => /\ ret.value = 0
       /\ game.board = ret.before.board
       /\ game.move_history = ret.before.move_history
       /\ game.stones_on_board = ret.before.stones_on_board
       /\ game.current_player = ret.before.current_player
       /\ game.game_state = ret.before.game_state

\* a move onto an occupied cell has been attempted and refused
C10_Witness ==
    /\ ret.op = "make_move"
    /\ is_valid_position(ret.x, ret.y, ret.before.board_size)
    /\ ret.before.board[ret.x][ret.y] # Empty
    /\ ret.value = 0

\* a search has returned to its caller
SearchReturned == ret.op = "find_best_move"

\* placing a stone of side on the empty cell (x, y) completes a line of
\* NEED_TO_WIN or more stones of side through that cell
CompletesFive(board, size, x, y, side) ==
    /\ board[x][y] = Empty
    /\ \E d \in 1 .. 4 :
          CountDir(board, size, x, y, -DIRECTIONS[d][1], -DIRECTIONS[d][2], side, 1) + 1
          + CountDir(board, size, x, y, DIRECTIONS[d][1], DIRECTIONS[d][2], side, 1) >= NEED_TO_WIN

WinningCells(g, side) ==
    { c \in (0 .. (g.board_size - 1)) \X (0 .. (g.board_size - 1)) :
        CompletesFive(g.board, g.board_size, c[1], c[2], side) }

\* C2: if the side to move has an empty cell whose occupation completes
\* five in a row for that side, the move finder returns such a cell.
C2_ReturnsWinningCell ==
    (SearchReturned /\ ret.before.current_player \in Sides
     /\ WinningCells(ret.before, ret.before.current_player) # {})
    => <<ret.x, ret.y>> \in WinningCells(ret.before, ret.before.current_player)

\* C3: every position the move finder returns, by the opening rule, by the
\* sequential search with or without a time limit, or by the parallel
\* driver, is inside the board and empty when it is returned.
C3_ReturnedCellValid ==
    SearchReturned =>
        /\ is_valid_position(ret.x, ret.y, game.board_size)
        /\ game.board[ret.x][ret.y] = Empty

\* the cells of the root candidates of a search from g
RootCandidates(g) ==
    { <<generate_moves_optimized(g, Naught)[k].x, generate_moves_optimized(g, Naught)[k].y>> :
        k \in 1 .. Len(generate_moves_optimized(g, Naught)) }

\* C4: whenever a root candidate exists, the parallel driver returns one
\* of the root candidates and never the no-move value (-1, -1), whatever
\* scores the root evaluations produce.
C4_ParallelReturnsCandidate ==
    (SearchReturned /\ ret.driver = "parallel" /\ ret.path \in {"pool", "single"})
    => /\ <<ret.x, ret.y>> # <<-1, -1>>
       /\ <<ret.x, ret.y>> \in RootCandidates(ret.before)

\* the result of the last iteration that ran to its end, or the fallback
LastCompleted(r) ==
    IF Len(r.completed) = 0 THEN r.fallback ELSE r.completed[Len(r.completed)]

\* the time limit was observed while an iteration of the search was running
InterruptedSearch ==
    SearchReturned /\ ret.path = "search" /\ game.search_timed_out = 1

\* C5: when the time limit is reached while the iteration at some depth is
\* in progress, the move returned is the best move of the last fully
\* completed depth, or the fallback move if no depth completed.
C5_InterruptedDepthIgnored ==
    InterruptedSearch => <<ret.x, ret.y>> = LastCompleted(ret)

\* the position after Naught's root move c from g, as the search sees it
\* when nothing is cached and there is no time limit
RootChild(g, c) ==
    [g EXCEPT !.board[c[1]][c[2]] = Naught,
              !.current_hash = Xor(@, zobrist_keys(1, c[1] * g.board_size + c[2])),
              !.transposition_table = << >>,
              !.killer_moves = init_killer_moves,
              !.move_timeout = 0,
              !.search_timed_out = 0]

\* the value the search computes for that position at the given depth
RootChildValue(g, c, depth) ==
    minimax_with_timeout(RootChild(g, c), depth, (0 - WIN_SCORE) - 1, WIN_SCORE + 1, 0, Naught,
                         c[1], c[2]).v

\* the table entry in the slot of the position after root move c
RootChildEntry(c) ==
    TTEntry(game, TTIndex[compute_zobrist_hash[RootChild(ret.before, c).board, game.board_size]])

\* a probe for the position after root move c with the root window, at the
\* depth of the entry in its slot, reports a usable value
RootChildProbed(c) ==
    probe_transposition(game,
                        compute_zobrist_hash[RootChild(ret.before, c).board, game.board_size],
                        RootChildEntry(c).depth, (0 - WIN_SCORE) - 1, WIN_SCORE + 1).r = 1

\* the entry value bounds the value in the way its flag says
BoundHolds(entry, value) ==
    /\ entry.flag = TT_EXACT => entry.value = value
    /\ entry.flag = TT_LOWER_BOUND => value >= entry.value
    /\ entry.flag = TT_UPPER_BOUND => value <= entry.value

\* C8: whenever a probe of the transposition table reports a usable value
\* for a position, that value is a correct bound, of the kind the flag of
\* the entry records, on the minimax value of the position at the stored
\* depth.  Checked for the positions one root move below a finished search.
C8_UsableEntryIsBound ==
    (SearchReturned /\ ret.path = "search")
    => \A c \in RootCandidates(ret.before) :
          RootChildProbed(c)
          => BoundHolds(RootChildEntry(c),
                        RootChildValue(ret.before, c, RootChildEntry(c).depth))

\* the move the sequential search chooses from g
SequentialChoice(g) == find_best_ai_move(g, Never, 0, 0).best

\* the pool of the parallel driver has chosen from a state of the kind the
\* claim speaks of
ParallelChose ==
    /\ SearchReturned
    /\ ret.driver = "parallel"
    /\ ret.path = "pool"
    /\ ret.before.stones_on_board >= 2
    /\ ret.before.move_timeout = 0
    /\ ret.before.max_depth <= 4

\* C9: for a state with at least two stones, no time limit and search depth
\* at most 4, the move the parallel driver chooses and the move the
\* sequential search chooses have equal search value.
C9_ParallelMatchesSequential ==
    ParallelChose
    => /\ <<ret.x, ret.y>> \in RootCandidates(ret.before)
       /\ RootChildValue(ret.before, <<ret.x, ret.y>>, ret.before.max_depth - 1)
          = RootChildValue(ret.before, SequentialChoice(ret.before), ret.before.max_depth - 1)

\* C11: a move with side Empty is rejected as illegal and changes nothing
\* in the state, even when the target cell is on the board and empty.
C11_EmptySideRejected ==
    (/\ ret.op = "make_move"
     /\ ret.player = Empty
     /\ is_valid_position(ret.x, ret.y, ret.before.board_size)
     /\ ret.before.board[ret.x][ret.y] = Empty)
    => /\ ret.value = 0
       /\ game = ret.before

\* some side has a winning line on the board of g, or no cell of it is empty
Finished(g) ==
    \/ has_winner[g.board, g.board_size, Cross] = 1
    \/ has_winner[g.board, g.board_size, Naught] = 1
    \/ \A i \in 0 .. (g.board_size - 1), j \in 0 .. (g.board_size - 1) : g.board[i][j] # Empty

\* C12: the move finder called on a state in which a side already has five
\* in a row, or whose board is full, returns the game-over error and
\* performs no search.
C12_FinishedGameNotSearched ==
    (SearchReturned /\ Finished(ret.before)) => ret.path = "game_over"

\* the cells of the last two recorded moves of g
LastTwoCells(g) ==
    { <<g.move_history[k].x, g.move_history[k].y>> :
        k \in (Len(g.move_history) - 1) .. Len(g.move_history) }

\* C13: undo_last_moves with undo enabled and at least two recorded moves
\* empties the cells of exactly the last two recorded moves, shortens the
\* history by two, makes Cross the side to move and the status Running;
\* with fewer than two recorded moves or undo disabled it changes nothing.
C13_UndoTakesBackTwo ==
    ret.op = "undo_last_moves" =>
        IF ret.before.config.enable_undo = 1 /\ Len(ret.before.move_history) >= 2
        THEN /\ \A i \in 0 .. (game.board_size - 1), j \in 0 .. (game.board_size - 1) :
                   game.board[i][j] = IF <<i, j>> \in LastTwoCells(ret.before) THEN Empty
                                      ELSE ret.before.board[i][j]
             /\ game.move_history
                   = SubSeq(ret.before.move_history, 1, Len(ret.before.move_history) - 2)
             /\ game.current_player = Cross
             /\ game.game_state = Running
        ELSE game = ret.before

\* two moves have been taken back from a state in which Naught was to move
C13_Witness ==
    /\ ret.op = "undo_last_moves"
    /\ ret.before.config.enable_undo = 1
    /\ Len(ret.before.move_history) >= 2
    /\ ret.before.current_player = Naught
    /\ Len(game.move_history) = Len(ret.before.move_history) - 2

NoEmptyCell(g) ==
    \A i \in 0 .. (g.board_size - 1), j \in 0 .. (g.board_size - 1) : g.board[i][j] # Empty

\* the status the board of g calls for
StatusOfBoard(g) ==
    IF HasExactFive(g.board, g.board_size, Cross) THEN HumanWin
    ELSE IF HasExactFive(g.board, g.board_size, Naught) THEN AIWin
    ELSE IF NoEmptyCell(g) THEN Draw
    ELSE Running

\* C14: after every successful make_move the status is HumanWin if Cross
\* has five in a row, otherwise AIWin if Naught has five in a row,
\* otherwise Draw if no empty cell remains, otherwise Running; the side to
\* move switches to the other side exactly when the status is Running.
C14_StatusFollowsBoard ==
    (ret.op = "make_move" /\ ret.value = 1)
    => /\ game.game_state = StatusOfBoard(game)
       /\ game.current_player = IF game.game_state = Running
                                THEN other_player(ret.before.current_player)
                                ELSE ret.before.current_player

\* the occupied cells of the board of g
Stones(g) ==
    { c \in (0 .. (g.board_size - 1)) \X (0 .. (g.board_size - 1)) : g.board[c[1]][c[2]] # Empty }

\* Chebyshev distance of two cells
Chebyshev(c, d) == Max(Abs(c[1] - d[1]), Abs(c[2] - d[2]))

\* the empty on-board cells at Chebyshev distance 1 or 2 from cell c
NearEmpty(g, c) ==
    { d \in (0 .. (g.board_size - 1)) \X (0 .. (g.board_size - 1)) :
        g.board[d[1]][d[2]] = Empty /\ Chebyshev(c, d) \in {1, 2} }

\* a search has returned that was entered with exactly one stone on the board
OpeningReply == SearchReturned /\ Cardinality(Stones(ret.before)) = 1

\* C15: with exactly one stone on the board on entry, the move finder
\* returns an empty on-board cell at Chebyshev distance 1 or 2 from that
\* stone and invokes no minimax search.
C15_OpeningReplyNearStone ==
    OpeningReply
    => /\ ret.path = "first"
       /\ \A c \in Stones(ret.before) : <<ret.x, ret.y>> \in NearEmpty(ret.before, c)

\* how often cell d occurs in the sequence list
Occurrences(list, d) == Cardinality({ k \in 1 .. Len(list) : list[k] = d })

\* the opening rule has answered a single Cross stone
OpeningReplyToCross ==
    /\ OpeningReply
    /\ ret.path = "first"
    /\ \A c \in Stones(ret.before) : ret.before.board[c[1]][c[2]] = Cross

\* C16: under the opening rule every empty on-board cell at Chebyshev
\* distance 1 or 2 from the single stone appears exactly once in the list
\* from which the random index is drawn, so each cell is equally likely.
C16_OpeningListUniform ==
    OpeningReplyToCross
    => \A c \in Stones(ret.before) :
          \A d \in NearEmpty(ret.before, c) :
              Occurrences(valid_moves_near(ret.before, c), d) = 1

\* ------------------------------------------------------------------------
\* Size of the worker pool (util/thread_pool.hpp, ai_parallel.cpp)
\* ------------------------------------------------------------------------
\* the values hardware_concurrency() reports are 0 .. MaxCores
MaxCores == 70
\* the pool sizes a caller passes are 0 .. MaxThreads, 0 standing for none
MaxThreads == 2

\* an unsigned int is kept as its two 16-bit halves
HalfRange == 65536

Uint(hi, lo) == [hi |-> hi, lo |-> lo]

\* a - 1 in unsigned int: 0 - 1 wraps to the largest value
uint_minus_one(a) ==
    IF a.lo > 0 THEN Uint(a.hi, a.lo - 1)
    ELSE IF a.hi > 0 THEN Uint(a.hi - 1, HalfRange - 1)
    ELSE Uint(HalfRange - 1, HalfRange - 1)

uint_less(a, b) == a.hi < b.hi \/ (a.hi = b.hi /\ a.lo < b.lo)

\* std::max(a, b)
uint_max(a, b) == IF uint_less(a, b) THEN b ELSE a

\* std::max(1u, std::thread::hardware_concurrency() - 1)
default_threads(hardware_concurrency) == uint_max(Uint(0, 1), uint_minus_one(hardware_concurrency))

\* ThreadPool::ThreadPool(threads): the number of workers created
ThreadPool(threads) == IF threads = Uint(0, 0) THEN Uint(0, 1) ELSE threads

\* ParallelAI::ParallelAI(num_threads): the size of thread_pool_
ParallelAI(num_threads, hardware_concurrency) == ThreadPool(IF num_threads = Uint(0, 0) THEN default_threads(hardware_concurrency) ELSE num_threads)

NoGame == << >>

InitThreads ==
    /\ game = NoGame
    /\ ret = NoRet
    /\ par = ParIdle
    /\ \E hc \in 0 .. MaxCores, n \in 0 .. MaxThreads :
          scen = [hardware_concurrency |-> Uint(0, hc), num_threads |-> Uint(0, n)]

\* ParallelAI ai(num_threads), get_thread_count()
ConstructParallelAI ==
    /\ ret.op = "init"
    /\ ret' = [op |-> "ParallelAI", given |-> scen.num_threads # Uint(0, 0),
               threads |-> ParallelAI(scen.num_threads, scen.hardware_concurrency)]
    /\ UNCHANGED <<game, scen, par>>

\* ThreadPool pool, with the default argument, or ThreadPool pool(n); size()
ConstructThreadPool ==
    /\ ret.op = "init"
    /\ ret' = [op |-> "ThreadPool", given |-> scen.num_threads # Uint(0, 0),
               threads |-> IF scen.num_threads = Uint(0, 0)
                           THEN ThreadPool(default_threads(scen.hardware_concurrency))
                           ELSE ThreadPool(scen.num_threads)]
    /\ UNCHANGED <<game, scen, par>>

NextThreads == ConstructParallelAI \/ ConstructThreadPool

SpecThreads == InitThreads /\ [][NextThreads]_vars

\* a pool was built without a size from the caller
DefaultPoolBuilt == ret.op \in {"ParallelAI", "ThreadPool"} /\ ~ret.given

\* C19: when the caller gives no pool size, the number of worker threads
\* is hardware_concurrency - 1 clamped to [1, 64], for every value
\* hardware_concurrency can report, 0 and 1 included.
C19_DefaultPoolSizeClamped ==
    DefaultPoolBuilt
    => ret.threads = Uint(0, Min(64, Max(1, scen.hardware_concurrency.lo - 1)))

\* the indices of the completed evaluations with the highest completed score
TopCompleted(evals) ==
    { i \in 1 .. Len(evals) :
        /\ evals[i].completed
        /\ \A j \in 1 .. Len(evals) : evals[j].completed => evals[j].score <= evals[i].score }

\* the first element of the non-empty set of indices s
FirstIndex(s) == CHOOSE i \in s : \A j \in s : i <= j

\* the parallel driver chose among evaluations of which several share the
\* highest completed score
ParallelTie ==
    /\ SearchReturned
    /\ ret.driver = "parallel"
    /\ ret.path = "pool"
    /\ Cardinality(TopCompleted(ret.evals)) >= 2

\* C20: when several root candidates share the highest completed score the
\* parallel driver returns the one submitted first, that is the earliest in
\* the sorted candidate order, whatever the order in which the tasks finish.
C20_TieGoesToFirstSubmitted ==
    ParallelTie
    => <<ret.x, ret.y>> = <<ret.evals[FirstIndex(TopCompleted(ret.evals))].x,
                            ret.evals[FirstIndex(TopCompleted(ret.evals))].y>>

\* ------------------------------------------------------------------------
\* Worker pool (util/thread_pool.hpp)
\* ------------------------------------------------------------------------
\* a pool has 1 .. MaxWorkers worker threads
MaxWorkers == 3
\* the owner of the pool enqueues at most MaxTasks tasks
MaxTasks == 3

\* the pool after its constructor: every worker is about to lock
\* queue_mutex_ for the first time, tasks_ is empty, stop_ is false;
\* enqueued and done record the tasks handed in and the tasks run
NewPool(threads) ==
    [workers |-> [w \in 1 .. threads |-> [pc |-> "lock", task |-> 0]],
     tasks |-> << >>,
     stop |-> FALSE,
     enqueued |-> 0,
     done |-> {}]

\* the owner of the pool: the thread that enqueues, waits and destroys
NewOwner(threads) ==
    [threads |-> threads, pc |-> "ready", joining |-> 0,
     at_stop |-> [queued |-> 0, busy |-> 0, waiting |-> 0]]

InitPool ==
    /\ game = NoGame
    /\ ret = NoRet
    /\ \E threads \in 1 .. MaxWorkers :
          /\ par = NewPool(threads)
          /\ scen = NewOwner(threads)

\* the predicate of condition_.wait
WaitOver(p) == p.stop \/ p.tasks # << >>

\* the worker leaves its loop without looking at the queue once stop_ is set
WorkerReturnsOnStop(p) == p.stop

\* the test under which the worker returns from its loop
WorkerReturns(p) == p.stop /\ p.tasks = << >>

\* worker w holds queue_mutex_ and finds the predicate false: it blocks in
\* condition_.wait, which releases the mutex
WorkerBlock(w) ==
    /\ w \in DOMAIN par.workers
    /\ par.workers[w].pc = "lock"
    /\ ~WaitOver(par)
    /\ par' = [par EXCEPT !.workers[w].pc = "waiting"]
    /\ UNCHANGED <<game, ret, scen>>

\* a worker that takes the task at the back of tasks_
WorkerTakeLast(w) ==
    /\ w \in DOMAIN par.workers
    /\ par.workers[w].pc = "lock"
    /\ WaitOver(par)
    /\ par' = IF WorkerReturns(par)
              THEN [par EXCEPT !.workers[w].pc = "exited"]
              ELSE [par EXCEPT !.workers[w] = [pc |-> "running", task |-> par.tasks[Len(par.tasks)]],
                               !.tasks = SubSeq(@, 1, Len(@) - 1)]
    /\ UNCHANGED <<game, ret, scen>>

\* worker w holds queue_mutex_ and finds the predicate true: it returns, or
\* takes the task at the front of tasks_ and releases the mutex
WorkerTake(w) ==
    /\ w \in DOMAIN par.workers
    /\ par.workers[w].pc = "lock"
    /\ WaitOver(par)
    /\ par' = IF WorkerReturns(par)
              THEN [par EXCEPT !.workers[w].pc = "exited"]
              ELSE [par EXCEPT !.workers[w] = [pc |-> "running", task |-> Head(par.tasks)],
                               !.tasks = Tail(@)]
    /\ UNCHANGED <<game, ret, scen>>

\* task() of worker w returns; the worker goes round its loop
WorkerRun(w) ==
    /\ w \in DOMAIN par.workers
    /\ par.workers[w].pc = "running"
    /\ par' = [par EXCEPT !.workers[w] = [pc |-> "lock", task |-> 0],
                          !.done = @ \union {par.workers[w].task}]
    /\ UNCHANGED <<game, ret, scen>>

\* condition_.wait of worker w wakes without a notification
SpuriousWake(w) ==
    /\ w \in DOMAIN par.workers
    /\ par.workers[w].pc = "waiting"
    /\ par' = [par EXCEPT !.workers[w].pc = "lock"]
    /\ UNCHANGED <<game, ret, scen>>

\* enqueue up to the release of queue_mutex_; on a stopped pool it throws
Enqueue ==
    /\ scen.pc = "ready"
    /\ ~par.stop
    /\ par.enqueued < MaxTasks
    /\ par' = [par EXCEPT !.tasks = Append(@, par.enqueued + 1), !.enqueued = @ + 1]
    /\ scen' = [scen EXCEPT !.pc = "notify"]
    /\ UNCHANGED <<game, ret>>

\* condition_.notify_one() of enqueue wakes worker w, or nobody when no
\* worker is blocked; enqueue returns the future
NotifyOne(w) ==
    /\ scen.pc = "notify"
    /\ IF \E v \in DOMAIN par.workers : par.workers[v].pc = "waiting"
       THEN /\ w \in DOMAIN par.workers
            /\ par.workers[w].pc = "waiting"
            /\ par' = [par EXCEPT !.workers[w].pc = "lock"]
       ELSE /\ w = 1
            /\ UNCHANGED par
    /\ scen' = [scen EXCEPT !.pc = "ready"]
    /\ ret' = [op |-> "enqueue", task |-> par.enqueued]
    /\ UNCHANGED game

\* the tasks the workers are executing
Executing(p) == { p.workers[w].task : w \in { v \in DOMAIN p.workers : p.workers[v].pc = "running" } }

\* wait_for_tasks: it yields while tasks_ is not empty and returns when it
\* finds tasks_ empty
WaitForTasks ==
    /\ scen.pc = "ready"
    /\ par.tasks = << >>
    /\ ret' = [op |-> "wait_for_tasks", enqueued |-> par.enqueued,
               queued |-> Len(par.tasks), executing |-> Executing(par), done |-> par.done]
    /\ UNCHANGED <<game, scen, par>>

\* the number of workers at position pc
WorkersAt(p, pc) == Cardinality({ w \in DOMAIN p.workers : p.workers[w].pc = pc })

\* ~ThreadPool sets stop_ under the mutex
Stop ==
    /\ scen.pc = "ready"
    /\ par' = [par EXCEPT !.stop = TRUE]
    /\ scen' = [scen EXCEPT !.pc = "stopped",
                            !.at_stop = [queued |-> Len(par.tasks),
                                         busy |-> WorkersAt(par, "running"),
                                         waiting |-> WorkersAt(par, "waiting")]]
    /\ UNCHANGED <<game, ret>>

\* ~ThreadPool wakes every blocked worker
NotifyAll ==
    /\ scen.pc = "stopped"
    /\ par' = [par EXCEPT !.workers =
                  [w \in DOMAIN @ |-> IF @[w].pc = "waiting" THEN [@[w] EXCEPT !.pc = "lock"]
                                      ELSE @[w]]]
    /\ scen' = [scen EXCEPT !.pc = "join", !.joining = 1]
    /\ UNCHANGED <<game, ret>>

\* worker.join() returns for the worker the destructor is joining; after
\* the last one the destructor returns
JoinWorker ==
    /\ scen.pc = "join"
    /\ par.workers[scen.joining].pc = "exited"
    /\ IF scen.joining = scen.threads
       THEN /\ scen' = [scen EXCEPT !.pc = "gone"]
            /\ ret' = [op |-> "destroy", queued |-> Len(par.tasks),
                       unfinished |-> (1 .. par.enqueued) \ par.done,
                       exited |-> WorkersAt(par, "exited")]
       ELSE /\ scen' = [scen EXCEPT !.joining = @ + 1]
            /\ UNCHANGED ret
    /\ UNCHANGED <<game, par>>

NextPool ==
    \/ \E w \in 1 .. MaxWorkers : WorkerBlock(w)
    \/ \E w \in 1 .. MaxWorkers : WorkerTake(w)
    \/ \E w \in 1 .. MaxWorkers : WorkerRun(w)
    \/ \E w \in 1 .. MaxWorkers : SpuriousWake(w)
    \/ Enqueue
    \/ \E w \in 1 .. MaxWorkers : NotifyOne(w)
    \/ WaitForTasks
    \/ Stop
    \/ NotifyAll
    \/ JoinWorker

SpecPool == InitPool /\ [][NextPool]_vars

\* every thread that can take a step is scheduled in the end and every
\* task returns; nothing obliges the owner to enqueue, to wait or to destroy
PoolFairness ==
    /\ \A w \in 1 .. MaxWorkers : WF_vars(WorkerBlock(w)) /\ WF_vars(WorkerTake(w)) /\ WF_vars(WorkerRun(w))
    /\ WF_vars(\E w \in 1 .. MaxWorkers : NotifyOne(w))
    /\ WF_vars(NotifyAll)
    /\ WF_vars(JoinWorker)

SpecPoolFair == InitPool /\ [][NextPool]_vars /\ PoolFairness

\* the destructor has returned
PoolGone == scen.pc = "gone"

\* C17: destroying the pool always completes: every task enqueued before
\* the destruction is still executed, every worker then exits and is
\* joined, and the destructor returns, whatever mix of idle and busy
\* workers exists when the destruction starts.
C17_DestructionCompletes ==
    /\ [](PoolGone => /\ ret.op = "destroy"
                      /\ ret.queued = 0
                      /\ ret.unfinished = {}
                      /\ ret.exited = scen.threads)
    /\ (par.stop ~> PoolGone)

\* the destructor returned for a pool that had a task in the queue, a busy
\* worker and a blocked worker when the destruction started
C17_Witness ==
    /\ PoolGone
    /\ scen.at_stop.queued > 0
    /\ scen.at_stop.busy > 0
    /\ scen.at_stop.waiting > 0
    /\ ret.unfinished = {}

\* C18: wait_for_tasks returns only when all tasks submitted before the
\* call have completed: no task is queued and no task is still being
\* executed by a worker.
C18_WaitReturnsWhenAllDone ==
    ret.op = "wait_for_tasks"
    => /\ ret.queued = 0
       /\ ret.executing = {}
       /\ ret.done = 1 .. ret.enqueued

\* ------------------------------------------------------------------------
\* Evaluator specification: two runs of one side cross on the cell
\* (Row, Row), one along x and one along y, each with an empty cell or an
\* opponent stone next to either end; the evaluator is applied to the board
\* ------------------------------------------------------------------------
\* the runs have 1 .. MaxArm stones
MaxArm == 4

\* evaluate_position of the Board template
Board_evaluate_position(board, size, player) ==
    IF Board_has_winner(board, size, player) THEN WIN_SCORE
    ELSE IF Board_has_winner(board, size, other_player(player)) THEN LOSE_SCORE
    ELSE LET stones == { c \in (0 .. (size - 1)) \X (0 .. (size - 1)) : board[c[1]][c[2]] # Empty }
         IN SumOver(stones, [c \in stones |-> CellTerm(board, size, player, c)])

\* the stone the pattern s puts on cell c: the two runs of s.side, and a
\* stone of the other side next to each end that s blocks
PatternCell(s, c) ==
    IF (c[1] = Row /\ c[2] >= Row /\ c[2] < Row + s.along_y)
       \/ (c[2] = Row /\ c[1] >= Row /\ c[1] < Row + s.along_x)
    THEN s.side
    ELSE IF \/ (c = <<Row, Row - 1>> /\ s.y_low)
            \/ (c = <<Row, Row + s.along_y>> /\ s.y_high)
            \/ (c = <<Row - 1, Row>> /\ s.x_low)
            \/ (c = <<Row + s.along_x, Row>> /\ s.x_high)
    THEN other_player(s.side)
    ELSE Empty

PatternBoard(s) == [x \in Coords |-> [y \in Coords |-> PatternCell(s, <<x, y>>)]]

Patterns ==
    [side : {Cross, Naught}, along_x : 1 .. MaxArm, along_y : 1 .. MaxArm,
     x_low : BOOLEAN, x_high : BOOLEAN, y_low : BOOLEAN, y_high : BOOLEAN]

InitEval ==
    /\ \E s \in Patterns :
          /\ scen = s
          /\ game = [board |-> PatternBoard(s), board_size |-> BoardSize]
    /\ ret = NoRet
    /\ par = ParIdle

\* calc_score_at(board, size, side of the runs, Row, Row)
CalcScoreAt ==
    /\ ret.op = "init"
    /\ ret' = [op |-> "calc_score_at", player |-> scen.side, x |-> Row, y |-> Row,
               value |-> Board_calc_score_at(game.board, game.board_size, scen.side, Row, Row)]
    /\ UNCHANGED <<game, scen, par>>

\* evaluate_position(board, side) for either side
EvaluatePosition ==
    /\ ret.op = "init"
    /\ ret' = [op |-> "evaluate_position",
               cross |-> Board_evaluate_position(game.board, game.board_size, Cross),
               naught |-> Board_evaluate_position(game.board, game.board_size, Naught)]
    /\ UNCHANGED <<game, scen, par>>

\* calc_combination_threat(one, two) as calc_score_at calls it for the
\* directions i < j of the cell (Row, Row)
CalcCombinationThreat(i, j) ==
    /\ ret.op = "init"
    /\ i < j
    /\ LET one == ThreatAt(game.board, game.board_size, scen.side, Row, Row, i)
           two == ThreatAt(game.board, game.board_size, scen.side, Row, Row, j)
       IN ret' = [op |-> "calc_combination_threat", one |-> one, two |-> two,
                  value |-> calc_combination_threat(one, two)]
    /\ UNCHANGED <<game, scen, par>>

NextEval ==
    \/ CalcScoreAt
    \/ EvaluatePosition
    \/ \E i \in 1 .. 4, j \in 1 .. 4 : CalcCombinationThreat(i, j)

SpecEval == InitEval /\ [][NextEval]_vars

\* the combination bonus calc_score_at adds for the stone on (x, y)
CombinationBonus(board, size, x, y) ==
    Board_calc_score_at(board, size, board[x][y], x, y)
    - (threat_cost(ThreatAt(board, size, board[x][y], x, y, 1))
       + threat_cost(ThreatAt(board, size, board[x][y], x, y, 2))
       + threat_cost(ThreatAt(board, size, board[x][y], x, y, 3))
       + threat_cost(ThreatAt(board, size, board[x][y], x, y, 4)))

\* neither side has five in a row and no stone earns a combination bonus
QuietBoard(board, size) ==
    /\ ~Board_has_winner(board, size, Cross)
    /\ ~Board_has_winner(board, size, Naught)
    /\ \A c \in Coords \X Coords :
          board[c[1]][c[2]] # Empty => CombinationBonus(board, size, c[1], c[2]) = 0

\* C21: for every board on which neither side has five in a row and no
\* combination bonus applies, the position scores of the two sides add up
\* to zero.
C21_ScoresOfTheSidesCancel ==
    (ret.op = "evaluate_position" /\ QuietBoard(game.board, game.board_size))
    => ret.cross + ret.naught = 0

\* a quiet board with stones of both sides was evaluated and its score is
\* not zero
C21_Witness ==
    /\ ret.op = "evaluate_position"
    /\ QuietBoard(game.board, game.board_size)
    /\ scen.x_low /\ scen.y_high
    /\ scen.along_x = 3
    /\ ret.cross # 0

\* C22: the combination bonus does not depend on the order of the two
\* directional threats: the bonus for (a, b) equals the bonus for (b, a),
\* so a cell with a Three in one direction and a Four in another gets the
\* same bonus whichever direction holds which.
C22_CombinationBonusSymmetric ==
    ret.op = "calc_combination_threat"
    => ret.value = calc_combination_threat(ret.two, ret.one)

\* C23: for a run of three or four stones through a cell, the cell score
\* with no opponent stone next to either end of the run is strictly
\* greater than the cell score of the same run with an opponent stone next
\* to one or both ends.
C23_UnblockedScoresHigher ==
    (ret.op = "calc_score_at" /\ scen.along_y \in {3, 4} /\ (scen.y_low \/ scen.y_high))
    => Board_calc_score_at(PatternBoard([scen EXCEPT !.y_low = FALSE, !.y_high = FALSE]),
                           game.board_size, scen.side, Row, Row) > ret.value

\* C24: once the timed-out flag is set during a search it stays set until
\* that search returns, and after it is set no further child is expanded:
\* no stone is placed on the board at any level of the search.
C24_TimedOutFlagSticky ==
    SearchReturned
    => /\ game.timeout_seen = 1 => game.search_timed_out = 1
       /\ game.placed_late = 0

\* the flag was set below the root, after some clock readings inside the
\* search of a root move at a depth of two or more
C24_Witness ==
    /\ SearchReturned
    /\ ret.driver = "sequential"
    /\ ret.path = "search"
    /\ game.timeout_seen = 1
    /\ ret.when.depth >= 2
    /\ ret.when.move >= 1
    /\ ret.when.tick >= 3

\* C25: when find_best_move returns, normally, by the early return on a
\* winning score or after a timeout, every board cell, the stone count, the
\* incrementally maintained Zobrist hash and the interesting set have the
\* values they had on entry.
C25_SearchRestoresPosition ==
    SearchReturned
    => /\ game.board = ret.before.board
       /\ game.stones_on_board = ret.before.stones_on_board
       /\ game.current_hash = ret.before.current_hash
       /\ game.interesting_moves = ret.before.interesting_moves

\* a search that placed stones below the root returned after a timeout
C25_Witness ==
    /\ SearchReturned
    /\ ret.path = "search"
    /\ game.search_timed_out = 1
    /\ ret.when.depth >= 2
    /\ ret.when.move >= 1
    /\ ret.when.tick >= 3
    /\ game.transposition_table # ret.before.transposition_table

\* ------------------------------------------------------------------------
\* Winner cache specification: Cross plays the cells (5,5) .. (5,9) of one
\* row and Naught scattered cells of row 0 in turn; between the moves the
\* game is searched, the last two moves are undone and the winner is queried
\* ------------------------------------------------------------------------
\* the game has at most MaxPlayed moves
MaxPlayed == 9
\* at most MaxCacheSearches searches are run and MaxUndos pairs of moves undone
MaxCacheSearches == 1
MaxUndos == 1

\* the n-th move of the game
PlayedCell(n) == IF n % 2 = 1 THEN CrossCell("middle", (n + 1) \div 2) ELSE NaughtCell("corner", n \div 2)

InitCache ==
    /\ game = init_game([board_size |-> BoardSize, max_depth |-> 1, move_timeout |-> 0, enable_undo |-> 1])
    /\ ret = NoRet
    /\ scen = [searches |-> 0, undos |-> 0]
    /\ par = ParIdle

\* the side to move plays the next cell of the game
PlayNext ==
    /\ Len(game.move_history) < MaxPlayed
    /\ LET c == PlayedCell(Len(game.move_history) + 1)
           r == make_move(game, c[1], c[2], game.current_player)
       IN /\ game' = r[2]
          /\ ret' = [op |-> "make_move", x |-> c[1], y |-> c[2], player |-> game.current_player,
                     value |-> r[1]]
    /\ UNCHANGED <<scen, par>>

\* undo_last_moves takes the last two moves back
UndoPair ==
    /\ scen.undos < MaxUndos
    /\ game' = undo_last_moves(game)
    /\ ret' = [op |-> "undo_last_moves"]
    /\ scen' = [scen EXCEPT !.undos = @ + 1]
    /\ UNCHANGED par

\* find_best_ai_move on the game as it is
SearchAgain ==
    /\ scen.searches < MaxCacheSearches
    /\ Returns("sequential", find_best_ai_move(game, Never, 0, 0), Never)
    /\ scen' = [scen EXCEPT !.searches = @ + 1]
    /\ UNCHANGED par

\* get_cached_winner(game, player), as minimax_with_timeout calls it
QueryWinner(player) ==
    /\ game' = get_cached_winner(game, player).g
    /\ ret' = [op |-> "get_cached_winner", player |-> player,
               value |-> get_cached_winner(game, player).r]
    /\ UNCHANGED <<scen, par>>

NextCache ==
    \/ PlayNext
    \/ SearchAgain
    \/ UndoPair
    \/ \E player \in {Cross, Naught} : QueryWinner(player)

SpecCache == InitCache /\ [][NextCache]_vars

\* C26: every placement or removal of a stone, by a move, by the undo and
\* by every make and unmake inside the search, those at the root included,
\* invalidates the winner cache, so each winner query returns whether the
\* side has five in a row on the board as it is at the time of the query.
C26_WinnerQueryIsCurrent ==
    ret.op = "get_cached_winner"
    => ret.value = has_winner[game.board, game.board_size, ret.player]

\* the cells generate_moves_optimized returns
CandidateCells(g) == { <<generate_moves_optimized(g, g.current_player)[n].x, generate_moves_optimized(g, g.current_player)[n].y>> : n \in 1 .. Len(generate_moves_optimized(g, g.current_player)) }

\* the empty cells within Chebyshev distance MAX_RADIUS of some stone
CellsNearStones(g) ==
    LET N == 0 .. (g.board_size - 1)
    IN { c \in N \X N :
           /\ g.board[c[1]][c[2]] = Empty
           /\ \E i \in Max(0, c[1] - MAX_RADIUS) .. Min(g.board_size - 1, c[1] + MAX_RADIUS),
                 j \in Max(0, c[2] - MAX_RADIUS) .. Min(g.board_size - 1, c[2] + MAX_RADIUS) :
                 g.board[i][j] # Empty }

\* C27: after any sequence of moves on a fresh game that leaves at least
\* one stone on the board, the cells the move generator returns are exactly
\* the empty cells within Chebyshev distance 2 of some stone.
C27_CandidatesAreNearStones ==
    (ret.op = "make_move" /\ game.move_history # << >>)
    => CandidateCells(game) = CellsNearStones(game)

\* ------------------------------------------------------------------------
\* Transposition table specification: entries are stored into and probed
\* from the table of a fresh game, under the hash of the empty board and
\* under two hashes that address one slot
\* ------------------------------------------------------------------------
\* depths stored and probed are 0 .. MaxTableDepth
MaxTableDepth == 1

\* the hash of the empty board, of a Cross stone on (1,12) and of a Naught
\* stone on (18,1); the last two address the same slot
TableHashes == { {}, zobrist_keys(0, 31), zobrist_keys(1, 343) }
TableValues == {0, 4}
TableWindows == { <<-2, 2>>, <<2, 6>> }

InitTable ==
    /\ game = init_game([board_size |-> BoardSize, max_depth |-> 1, move_timeout |-> 0, enable_undo |-> 1])
    /\ ret = NoRet
    /\ scen = [dir |-> 0, side |-> Empty]
    /\ par = ParIdle

\* store_transposition(game, hash, value, depth, flag, 7, 7); written tells
\* whether a store has written the addressed slot before
StoreTransposition(hash, value, depth, flag) ==
    /\ game' = store_transposition(game, hash, value, depth, flag, 7, 7)
    /\ ret' = [op |-> "store_transposition", hash |-> hash, value |-> value, depth |-> depth,
               flag |-> flag, entry |-> TTEntry(game, TTIndex[hash]),
               written |-> TTIndex[hash] \in DOMAIN game.transposition_table]
    /\ UNCHANGED <<scen, par>>

\* probe_transposition(game, hash, depth, alpha, beta, &value)
ProbeTransposition(hash, depth, alpha, beta) ==
    /\ ret' = [op |-> "probe_transposition", hash |-> hash, depth |-> depth, alpha |-> alpha,
               beta |-> beta, entry |-> TTEntry(game, TTIndex[hash]),
               written |-> TTIndex[hash] \in DOMAIN game.transposition_table,
               r |-> probe_transposition(game, hash, depth, alpha, beta).r,
               value |-> probe_transposition(game, hash, depth, alpha, beta).value]
    /\ UNCHANGED <<game, scen, par>>

NextTable ==
    \/ \E hash \in TableHashes, value \in TableValues, depth \in 0 .. MaxTableDepth, flag \in {TT_EXACT, TT_LOWER_BOUND, TT_UPPER_BOUND} : StoreTransposition(hash, value, depth, flag)
    \/ \E hash \in TableHashes, depth \in 0 .. MaxTableDepth, w \in TableWindows : ProbeTransposition(hash, depth, w[1], w[2])

SpecTable == InitTable /\ [][NextTable]_vars

\* C28: a probe with (hash, depth, alpha, beta) reports a usable value if
\* and only if the hash stored in the addressed slot equals hash, the depth
\* stored there is at least depth, and the stored flag is Exact, or
\* LowerBound with a stored value >= beta, or UpperBound with a stored
\* value <= alpha.
C28_ProbeUsableIff ==
    ret.op = "probe_transposition"
    => (ret.r = 1 <=> /\ ret.entry.hash = ret.hash
                      /\ ret.entry.depth >= ret.depth
                      /\ \/ ret.entry.flag = TT_EXACT
                         \/ (ret.entry.flag = TT_LOWER_BOUND /\ ret.entry.value >= ret.beta)
                         \/ (ret.entry.flag = TT_UPPER_BOUND /\ ret.entry.value <= ret.alpha))

\* a probe at depth 1 cut by the lower bound stored at depth 1
C28_Witness ==
    /\ ret.op = "probe_transposition" /\ ret.r = 1 /\ ret.written
    /\ ret.hash # {} /\ ret.depth = 1 /\ ret.entry.flag = TT_LOWER_BOUND

\* C29: a store overwrites the addressed slot if and only if the slot is
\* empty or the depth stored in it is at most the incoming depth; otherwise
\* every field of the slot is left as it was.
C29_StoreReplacesShallower ==
    ret.op = "store_transposition"
    => TTEntry(game, TTIndex[ret.hash])
         = IF ~ret.written \/ ret.entry.depth <= ret.depth
           THEN [hash |-> ret.hash, value |-> ret.value, depth |-> ret.depth, flag |-> ret.flag,
                 best_move_x |-> 7, best_move_y |-> 7]
           ELSE ret.entry

\* C30: a probe never reports a usable value from a slot that no store has
\* written, whatever the hash (0 included) and the depth (0 included).
C30_UnwrittenSlotNeverUsable ==
    (ret.op = "probe_transposition" /\ ~ret.written) => ret.r = 0

\* C31: a node's table entry is written with flag LowerBound only after a
\* beta cutoff and with flag UpperBound only after an alpha cutoff; a node,
\* maximizing or minimizing, whose final value lies strictly between the
\* alpha and beta it was called with is stored with flag Exact.
C31_InsideWindowStoredExact ==
    (SearchReturned /\ ret.driver = "sequential") => game.inexact = << >>

\* C33: a node that returns from inside or after its loop over the moves
\* returns the value of a child it searched; the initial values of the
\* loops, -WIN_SCORE-1 in the maximizer and WIN_SCORE+1 in the minimizer,
\* are never returned as the value of a node.
C33_InitialValueNeverReturned ==
    (SearchReturned /\ ret.driver = "sequential") => game.sentinel = << >>

\* ------------------------------------------------------------------------
\* Minimax on decided positions: a game that one side has won by five in a
\* row is handed to minimax_with_timeout, again and again, with its
\* transposition table kept between the calls; the root side is the same
\* in all calls on one game
\* ------------------------------------------------------------------------
\* remaining depths of the calls are 0 .. MaxCallDepth
MaxCallDepth == 2

\* the n-th move of the game that winner wins: the winner fills a row, the
\* loser scattered cells of row 0
WonGameCell(winner, n) ==
    IF n % 2 = 1
    THEN (IF winner = Cross THEN CrossCell("middle", (n + 1) \div 2) ELSE CrossCell("corner", (n + 1) \div 2))
    ELSE (IF winner = Naught THEN NaughtCell("middle", n \div 2) ELSE NaughtCell("corner", n \div 2))

RECURSIVE WonGame(_, _)
WonGame(winner, n) ==
    IF n = 0
    THEN init_game([board_size |-> BoardSize, max_depth |-> MaxCallDepth, move_timeout |-> 0, enable_undo |-> 0])
    ELSE LET g == WonGame(winner, n - 1)
         IN make_move(g, WonGameCell(winner, n)[1], WonGameCell(winner, n)[2], g.current_player)[2]

InitMinimax ==
    /\ \E winner \in {Cross, Naught}, ai_player \in {Cross, Naught} :
          /\ scen = [winner |-> winner, ai_player |-> ai_player]
          /\ game = WonGame(winner, IF winner = Cross THEN 9 ELSE 10)
    /\ ret = NoRet
    /\ par = ParIdle

\* minimax_with_timeout(game, game->board, depth, alpha, beta,
\* maximizing_player, ai_player, x, y) with (x, y) the last move played
MinimaxCall(depth, alpha, beta, maximizing_player) ==
    LET last == game.move_history[Len(game.move_history)]
        ai_player == scen.ai_player
        res == minimax_with_timeout(game, depth, alpha, beta, maximizing_player, ai_player, last.x, last.y)
    IN /\ game' = res.g
       /\ ret' = [op |-> "minimax", depth |-> depth, alpha |-> alpha, beta |-> beta,
                  maximizing_player |-> maximizing_player, ai_player |-> ai_player, value |-> res.v]
    /\ UNCHANGED <<scen, par>>

NextMinimax ==
    \E depth \in 0 .. MaxCallDepth, w \in {<<(0 - WIN_SCORE) - 1, WIN_SCORE + 1>>, <<-1000, 1000>>, <<0, 1>>}, maximizing_player \in {0, 1} : MinimaxCall(depth, w[1], w[2], maximizing_player)

SpecMinimax == InitMinimax /\ [][NextMinimax]_vars

\* C32: every minimax call without timeout on a position in which the
\* root side has five in a row returns exactly WIN_SCORE + depth, and on a
\* position in which the other side has five exactly -(WIN_SCORE + depth),
\* depth being the remaining depth of that call.
C32_DecidedPositionValue ==
    ret.op = "minimax"
    => ret.value = IF has_winner[game.board, game.board_size, ret.ai_player] = 1
                   THEN WIN_SCORE + ret.depth ELSE 0 - (WIN_SCORE + ret.depth)

\* ------------------------------------------------------------------------
\* Killer moves specification: moves are stored into the killer lists of a
\* fresh game
\* ------------------------------------------------------------------------
\* killer moves are stored for the depths 0 .. MaxKillerDepth and for
\* MAX_SEARCH_DEPTH, which has no list
MaxKillerDepth == 1
\* the moves stored are the cells (Row, 0) .. (Row, MaxKillerCol)
MaxKillerCol == 2

InitKiller ==
    /\ game = init_game([board_size |-> BoardSize, max_depth |-> MaxKillerDepth + 1, move_timeout |-> 0, enable_undo |-> 0])
    /\ ret = NoRet
    /\ scen = [dir |-> 0, side |-> Empty]
    /\ par = ParIdle

\* store_killer_move(game, depth, x, y)
StoreKillerMove(depth, x, y) ==
    /\ game' = store_killer_move(game, depth, x, y)
    /\ ret' = [op |-> "store_killer_move", depth |-> depth, x |-> x, y |-> y,
               before |-> game.killer_moves]
    /\ UNCHANGED <<scen, par>>

\* get_move_priority_optimized(game, x, y, player) as a node of remaining
\* depth depth calls it through generate_moves_optimized; plain is the
\* priority of the same move with no killer move stored at all
MovePriority(depth, x, y, player) ==
    /\ ret' = [op |-> "get_move_priority", depth |-> depth, x |-> x, y |-> y, player |-> player,
               value |-> get_move_priority_optimized(game, x, y, player),
               plain |-> get_move_priority_optimized([game EXCEPT !.killer_moves = init_killer_moves],
                                                     x, y, player)]
    /\ UNCHANGED <<game, scen, par>>

NextKiller ==
    \/ \E depth \in (0 .. MaxKillerDepth) \cup {MAX_SEARCH_DEPTH}, y \in 0 .. MaxKillerCol : StoreKillerMove(depth, Row, y)
    \/ \E depth \in 1 .. MaxKillerDepth, y \in 0 .. MaxKillerCol, player \in {Cross, Naught} : MovePriority(depth, Row, y, player)

SpecKiller == InitKiller /\ [][NextKiller]_vars

\* the moves in a killer list
KillerMovesIn(list) == { list[k] : k \in 0 .. (MAX_KILLER_MOVES - 1) } \ { <<-1, -1>> }

\* C34: storing a killer move that is not in the list of its depth puts it
\* at the front, shifts the previous front to second place and evicts the
\* previous second; storing a move that is in the list changes nothing; the
\* list of a depth never holds more than 2 moves nor the same move twice.
C34_KillerListShifts ==
    (ret.op = "store_killer_move" /\ ret.depth < MAX_SEARCH_DEPTH)
    => LET old == ret.before[ret.depth]
           new == game.killer_moves[ret.depth]
       IN /\ <<ret.x, ret.y>> \notin KillerMovesIn(old) => (new[0] = <<ret.x, ret.y>> /\ new[1] = old[0])
          /\ <<ret.x, ret.y>> \in KillerMovesIn(old) => new = old
          /\ \A d \in DOMAIN game.killer_moves :
                /\ d # ret.depth => game.killer_moves[d] = ret.before[d]
                /\ DOMAIN game.killer_moves[d] = 0 .. (MAX_KILLER_MOVES - 1)
                /\ game.killer_moves[d][0] = game.killer_moves[d][1] => game.killer_moves[d][0] = <<-1, -1>>

\* a third move stored into a full list evicted the oldest one
C34_Witness ==
    /\ ret.op = "store_killer_move" /\ ret.depth < MAX_SEARCH_DEPTH
    /\ Cardinality(KillerMovesIn(ret.before[ret.depth])) = 2
    /\ <<ret.x, ret.y>> \notin KillerMovesIn(ret.before[ret.depth])
    /\ ret.before[ret.depth][1] \notin KillerMovesIn(game.killer_moves[ret.depth])

\* C35: when the candidates of a node of remaining depth d are ordered, a
\* candidate receives the killer move bonus if and only if it is in the
\* killer list stored for that depth d.
C35_KillerBonusOfSameDepth ==
    ret.op = "get_move_priority"
    => (ret.value = ret.plain + 10000 <=> <<ret.x, ret.y>> \in KillerMovesIn(game.killer_moves[ret.depth]))

\* C36: for every position, direction and side on every board, count_line
\* returns a value between 0 and NEED_TO_WIN = 5 inclusive.
C36_LineCountAtMostFive ==
    \A k \in 0 .. MaxRun, d \in 1 .. 4, side \in {Cross, Naught} :
        count_line(game.board, game.board_size, LineCell(scen.dir, k)[1], LineCell(scen.dir, k)[2],
                   DIRECTIONS[d], side) \in 0 .. NEED_TO_WIN

\* the tasks taken from the queue so far
TakenTasks(p) == Executing(p) \union p.done

\* C37: tasks are taken from the queue in the order they were submitted,
\* and each enqueued task is executed exactly once by exactly one worker,
\* never lost and never run twice, for any number of workers and any
\* interleaving of enqueue and dequeue.
C37_TasksFifoExactlyOnce ==
    /\ [](/\ par.tasks = [k \in 1 .. Len(par.tasks) |-> par.enqueued - Len(par.tasks) + k]
          /\ TakenTasks(par) = 1 .. (par.enqueued - Len(par.tasks))
          /\ Executing(par) \cap par.done = {}
          /\ Cardinality(Executing(par)) = WorkersAt(par, "running"))
    /\ \A t \in 1 .. MaxTasks : (par.enqueued >= t) ~> (t \in par.done)

\* two workers are executing the first two tasks while the third waits in
\* the queue
C37_Witness ==
    /\ WorkersAt(par, "running") = 2
    /\ Executing(par) = {1, 2}
    /\ par.tasks = <<3>>

\* ------------------------------------------------------------------------
\* Root tasks of the parallel driver (ai_parallel.cpp), statement by
\* statement: every task clones the caller's game, searches on the clone,
\* publishes its score and frees the clone.  Object 0 is the caller's game,
\* object i the clone of task i; the score of a search and the failure of an
\* allocation or of the search are inputs.
\* ------------------------------------------------------------------------
\* the driver evaluates 2 .. MaxRootTasks root moves
MaxRootTasks == 3
\* the searches return the scores 1 .. MaxScore
MaxScore == 2

\* ParallelSearchState and move_evals after their construction, the heap
\* with the caller's game only, every task before its first statement;
\* writes records which task wrote which object
NewSearchState(move_count) ==
    [phase |-> "tasks",
     global_alpha |-> (0 - WIN_SCORE) - 1,
     global_beta |-> WIN_SCORE + 1,
     timeout_occurred |-> FALSE,
     best_score |-> (0 - WIN_SCORE) - 1,
     moves_evaluated |-> 0,
     best_move_mutex |-> 0,
     evals |-> [i \in 1 .. move_count |-> [score |-> (0 - WIN_SCORE) - 1, completed |-> FALSE]],
     objects |-> [o \in 0 .. move_count |-> [state |-> IF o = 0 THEN "live" ELSE "unallocated", frees |-> 0]],
     tasks |-> [i \in 1 .. move_count |-> [pc |-> "start", game_clone |-> -1, alpha |-> 0, beta |-> 0,
                                           score |-> 0, lost_race |-> FALSE, path |-> "none"]],
     writes |-> {}]

InitTasks ==
    /\ game = NoGame
    /\ ret = NoRet
    /\ \E move_count \in 2 .. MaxRootTasks, max_parallel \in 1 .. MaxRootTasks :
          /\ max_parallel <= move_count
          /\ scen = [move_count |-> move_count, max_parallel |-> max_parallel]
          /\ par = NewSearchState(move_count)

\* a clone that is the caller's game itself
share_game_state(p, i, ok) == [p |-> p, ptr |-> 0]

\* clone_game_state: a new game_state_t with a board of its own, or nullptr
\* when an allocation fails
clone_game_state(p, i, ok) ==
    IF ok THEN [p |-> [p EXCEPT !.objects[i].state = "live"], ptr |-> i]
    ELSE [p |-> p, ptr |-> -1]

\* a release that frees nothing
free_nothing(p, ptr) == p

\* free_game_state_clone
free_game_state_clone(p, ptr) ==
    IF ptr = -1 THEN p
    ELSE [p EXCEPT !.objects[ptr].state = "freed", !.objects[ptr].frees = @ + 1]

\* a test that always succeeds
AlwaysBetter(p, score) == TRUE

\* the test score > best_score.load() under best_move_mutex
StillBetter(p, score) == score > p.best_score

\* the tasks 1 .. max_parallel run on the pool; the driver runs the others
\* itself, in order, once every future is ready
Returned(p, i) == p.tasks[i].pc = "returned"
CanRun(i) ==
    /\ par.phase = "tasks"
    /\ i \in DOMAIN par.tasks
    /\ i > scen.max_parallel => \A k \in 1 .. (i - 1) : Returned(par, k)

\* evaluate_move_parallel up to the test of the clone
TaskClone(i, ok) ==
    /\ CanRun(i)
    /\ par.tasks[i].pc = "start"
    /\ LET c == clone_game_state(par, i, ok)
       IN par' = IF par.timeout_occurred
                 THEN [par EXCEPT !.tasks[i].pc = "returned", !.tasks[i].path = "timeout"]
                 ELSE IF c.ptr = -1
                 THEN [c.p EXCEPT !.tasks[i].pc = "returned", !.tasks[i].path = "no_clone"]
                 ELSE [c.p EXCEPT !.tasks[i].pc = "cloned", !.tasks[i].game_clone = c.ptr]
    /\ UNCHANGED <<game, ret, scen>>

\* the move on the clone, its hash, the bounds read
TaskPlace(i) ==
    /\ CanRun(i)
    /\ par.tasks[i].pc = "cloned"
    /\ par' = [par EXCEPT !.writes = @ \union {<<i, par.tasks[i].game_clone>>},
                          !.tasks[i].alpha = par.global_alpha,
                          !.tasks[i].beta = par.global_beta,
                          !.tasks[i].pc = "search"]
    /\ UNCHANGED <<game, ret, scen>>

\* minimax_with_timeout on the clone returns score, or an exception is
\* caught and the evaluation marked incomplete
TaskSearch(i, score, throws) ==
    /\ CanRun(i)
    /\ par.tasks[i].pc = "search"
    /\ par' = IF throws
              THEN [par EXCEPT !.writes = @ \union {<<i, par.tasks[i].game_clone>>},
                               !.evals[i].completed = FALSE,
                               !.tasks[i].pc = "free", !.tasks[i].path = "error"]
              ELSE [par EXCEPT !.writes = @ \union {<<i, par.tasks[i].game_clone>>},
                               !.tasks[i].score = score,
                               !.tasks[i].pc = "check", !.tasks[i].path = "normal"]
    /\ UNCHANGED <<game, ret, scen>>

\* if (score > search_state->best_score.load())
TaskCheck(i) ==
    /\ CanRun(i)
    /\ par.tasks[i].pc = "check"
    /\ par' = [par EXCEPT !.tasks[i].pc = IF par.tasks[i].score > par.best_score THEN "lock" ELSE "store"]
    /\ UNCHANGED <<game, ret, scen>>

\* the lock_guard and the second test; the mutex is released at once when
\* the test fails
TaskLock(i) ==
    /\ CanRun(i)
    /\ par.tasks[i].pc = "lock"
    /\ par.best_move_mutex = 0
    /\ par' = IF StillBetter(par, par.tasks[i].score)
              THEN [par EXCEPT !.best_move_mutex = i, !.tasks[i].pc = "set_best"]
              ELSE [par EXCEPT !.tasks[i].pc = "store", !.tasks[i].lost_race = TRUE]
    /\ UNCHANGED <<game, ret, scen>>

\* best_score.store(score)
TaskSetBest(i) ==
    /\ CanRun(i)
    /\ par.tasks[i].pc = "set_best"
    /\ par' = [par EXCEPT !.best_score = par.tasks[i].score, !.tasks[i].pc = "set_alpha"]
    /\ UNCHANGED <<game, ret, scen>>

\* global_alpha.store(std::max(alpha, score)) and the end of the lock_guard
TaskSetAlpha(i) ==
    /\ CanRun(i)
    /\ par.tasks[i].pc = "set_alpha"
    /\ par' = [par EXCEPT !.global_alpha = Max(par.tasks[i].alpha, par.tasks[i].score),
                          !.best_move_mutex = 0,
                          !.tasks[i].pc = "store"]
    /\ UNCHANGED <<game, ret, scen>>

\* the result is stored into move_eval and counted
TaskStore(i) ==
    /\ CanRun(i)
    /\ par.tasks[i].pc = "store"
    /\ par' = [par EXCEPT !.evals[i] = [score |-> par.tasks[i].score, completed |-> TRUE],
                          !.moves_evaluated = @ + 1,
                          !.tasks[i].pc = "free"]
    /\ UNCHANGED <<game, ret, scen>>

\* free_game_state_clone(game_clone); the task returns and its future, if
\* it has one, becomes ready
TaskFree(i) ==
    /\ CanRun(i)
    /\ par.tasks[i].pc = "free"
    /\ par' = [free_game_state_clone(par, par.tasks[i].game_clone) EXCEPT !.tasks[i].pc = "returned"]
    /\ UNCHANGED <<game, ret, scen>>

\* the driver after the last evaluation: it reads move_evals and returns
DriverReturn ==
    /\ par.phase = "tasks"
    /\ \A i \in DOMAIN par.tasks : Returned(par, i)
    /\ par' = [par EXCEPT !.phase = "done"]
    /\ ret' = [op |-> "find_best_move_parallel", evals |-> par.evals, best_score |-> par.best_score]
    /\ UNCHANGED <<game, scen>>

NextTasks ==
    \/ \E i \in 1 .. MaxRootTasks, ok \in BOOLEAN : TaskClone(i, ok)
    \/ \E i \in 1 .. MaxRootTasks : TaskPlace(i)
    \/ \E i \in 1 .. MaxRootTasks, score \in 1 .. MaxScore, throws \in BOOLEAN : TaskSearch(i, score, throws)
    \/ \E i \in 1 .. MaxRootTasks : TaskCheck(i)
    \/ \E i \in 1 .. MaxRootTasks : TaskLock(i)
    \/ \E i \in 1 .. MaxRootTasks : TaskSetBest(i)
    \/ \E i \in 1 .. MaxRootTasks : TaskSetAlpha(i)
    \/ \E i \in 1 .. MaxRootTasks : TaskStore(i)
    \/ \E i \in 1 .. MaxRootTasks : TaskFree(i)
    \/ DriverReturn

SpecTasks == InitTasks /\ [][NextTasks]_vars

\* C38: during a parallel root search no task writes to the caller's game
\* or to the clone of another task: each clone is written only by the task
\* that created it, from its creation to its release.
C38_ClonesWrittenByOwnerOnly ==
    par.phase # "idle"
    => /\ \A w \in par.writes : w[2] = w[1]
       /\ \A i \in DOMAIN par.tasks :
             par.tasks[i].pc \in {"cloned", "search", "check", "lock", "set_best", "set_alpha", "store", "free"}
             => par.tasks[i].game_clone = i /\ par.objects[i].state = "live"
       /\ par.objects[0] = [state |-> "live", frees |-> 0]

\* two tasks have written their clones and neither has released it
C38_Witness ==
    /\ par.phase = "tasks"
    /\ {<<1, 1>>, <<2, 2>>} \subseteq par.writes
    /\ par.objects[1].state = "live" /\ par.objects[2].state = "live"

\* C39: every clone created for a root task is released exactly once,
\* before the result of the task becomes available to the driver, on every
\* exit path of the task (normal return, early return, internal error).
C39_CloneReleasedOnce ==
    par.phase # "idle"
    => \A i \in DOMAIN par.tasks :
          /\ par.objects[i].frees <= 1
          /\ Returned(par, i) => par.objects[i].state \in {"unallocated", "freed"}
          /\ (Returned(par, i) /\ par.tasks[i].path \in {"normal", "error"})
             => par.objects[i] = [state |-> "freed", frees |-> 1]

\* the driver has returned after a task that ended normally, one that ended
\* on an error and one that got no clone
C39_Witness ==
    /\ par.phase = "done"
    /\ \A path \in {"normal", "error", "no_clone"} : \E i \in DOMAIN par.tasks : par.tasks[i].path = path

\* the scores of the completed evaluations
CompletedScores(p) == { p.evals[i].score : i \in { k \in DOMAIN p.evals : p.evals[k].completed } }

====
